---------------------------- MODULE Spec2Model ----------------------------
(***************************************************************************)
(* Model of mbuckets (src/mbuckets.go): path-addressed nested buckets on   *)
(* top of Bolt DB.                                                         *)
(*                                                                         *)
(* Byte slices are sequences of one-character strings; a bucket path is a  *)
(* sequence of segments.  The Bolt engine is modelled by what the calls    *)
(* used in mbuckets.go do (github.com/boltdb/bolt): a store is the set of  *)
(* bucket paths plus the plain key/value pairs of every bucket.            *)
(***************************************************************************)
EXTENDS Integers, Sequences, FiniteSets, TLC

(***************************************************************************)
(* Bytes                                                                   *)
(***************************************************************************)

\* Byte value of a character (bytes.Compare orders keys by it).
Ord(c) ==
  CASE c = "0" -> 0
    [] c = "/" -> 47
    [] c = ":" -> 58
    [] c = "a" -> 97
    [] c = "b" -> 98
    [] c = "k" -> 107
    [] c = "x" -> 120
    [] c = "y" -> 121

\* The default separator set by DB.Bucket.
DefaultSeparator == <<"/">>

\* bytes.HasPrefix
HasPrefix(s, prefix) ==
  /\ Len(prefix) <= Len(s)
  /\ SubSeq(s, 1, Len(prefix)) = prefix

\* bytes.Compare(a, b) <= 0, lexicographic by byte value
RECURSIVE BytesLeq(_, _)
BytesLeq(a, b) ==
  IF a = <<>> THEN TRUE
  ELSE IF b = <<>> THEN FALSE
  ELSE IF Ord(Head(a)) < Ord(Head(b)) THEN TRUE
  ELSE IF Ord(Head(a)) > Ord(Head(b)) THEN FALSE
  ELSE BytesLeq(Tail(a), Tail(b))

\* bytes.Split with a non-empty separator: cut at every non-overlapping
\* occurrence, left to right; cur is the segment being collected.
RECURSIVE SplitOn(_, _, _)
SplitOn(s, sep, cur) ==
  IF s = <<>> THEN <<cur>>
  ELSE IF HasPrefix(s, sep)
       THEN <<cur>> \o SplitOn(SubSeq(s, Len(sep) + 1, Len(s)), sep, <<>>)
       ELSE SplitOn(Tail(s), sep, Append(cur, Head(s)))

\* bytes.Split(s, sep); an empty separator explodes s into its bytes, so the
\* empty name then gives the empty list.
Split(s, sep) ==
  IF sep = <<>> THEN [i \in 1..Len(s) |-> <<s[i]>>]
  ELSE SplitOn(s, sep, <<>>)

\* Sorted sequence of a finite set of byte strings (Bolt iterates in key order).
RECURSIVE SortBytes(_)
SortBytes(S) ==
  IF S = {} THEN <<>>
  ELSE LET m == CHOOSE x \in S : \A y \in S : BytesLeq(x, y)
       IN  <<m>> \o SortBytes(S \ {m})

(***************************************************************************)
(* The Bolt store                                                          *)
(***************************************************************************)

\* bk: the paths of all buckets; kv: <<bucket path, key, value>> triples.
\* Path <<>> is the root of the transaction, which holds only buckets.
EmptyStore == [bk |-> {}, kv |-> {}]

\* A bucket handle inside a transaction: its path, or nil.
NoBucket == [ok |-> FALSE, path |-> <<>>]
BucketAt(path) == [ok |-> TRUE, path |-> path]

\* A value read from a bucket, or nil.
NilValue == [found |-> FALSE, value |-> <<>>]

ErrNil == [kind |-> "nil", arg |-> <<>>]
Err(kind, arg) == [kind |-> kind, arg |-> arg]

HasKey(s, path, k) == \E t \in s.kv : t[1] = path /\ t[2] = k
ValueOf(s, path, k) == (CHOOSE t \in s.kv : t[1] = path /\ t[2] = k)[3]
PlainKeys(s, path) == {t[2] : t \in {u \in s.kv : u[1] = path}}
ChildNames(s, path) ==
  {q[Len(q)] : q \in {r \in s.bk : Len(r) = Len(path) + 1
                                   /\ SubSeq(r, 1, Len(path)) = path}}
IsUnder(path, q) == Len(q) >= Len(path) /\ SubSeq(q, 1, Len(path)) = path

\* Bucket.Bucket / Tx.Bucket: nil unless the entry exists and is a bucket.
BoltBucket(s, parent, name) ==
  IF Append(parent, name) \in s.bk THEN BucketAt(Append(parent, name)) ELSE NoBucket

\* Faulty variant of BoltCreateBucketIfNotExists: Bucket.CreateBucket, which
\* fails on a bucket that exists.
BoltCreateBucket(s, parent, name) ==
  IF name = <<>>
  THEN [err |-> Err("ErrBucketNameRequired", <<>>), store |-> s, bucket |-> NoBucket]
  ELSE IF Append(parent, name) \in s.bk
  THEN [err |-> Err("ErrBucketExists", <<>>), store |-> s, bucket |-> NoBucket]
  ELSE IF HasKey(s, parent, name)
  THEN [err |-> Err("ErrIncompatibleValue", <<>>), store |-> s, bucket |-> NoBucket]
  ELSE [err |-> ErrNil,
        store |-> [s EXCEPT !.bk = @ \cup {Append(parent, name)}],
        bucket |-> BucketAt(Append(parent, name))]

\* Bucket.CreateBucketIfNotExists / Tx.CreateBucketIfNotExists
BoltCreateBucketIfNotExists(s, parent, name) ==
  IF name = <<>>
  THEN [err |-> Err("ErrBucketNameRequired", <<>>), store |-> s, bucket |-> NoBucket]
  ELSE IF Append(parent, name) \in s.bk
  THEN [err |-> ErrNil, store |-> s, bucket |-> BucketAt(Append(parent, name))]
  ELSE IF HasKey(s, parent, name)
  THEN [err |-> Err("ErrIncompatibleValue", <<>>), store |-> s, bucket |-> NoBucket]
  ELSE [err |-> ErrNil,
        store |-> [s EXCEPT !.bk = @ \cup {Append(parent, name)}],
        bucket |-> BucketAt(Append(parent, name))]

\* Bucket.DeleteBucket / Tx.DeleteBucket: removes the bucket and its subtree.
BoltDeleteBucket(s, parent, name) ==
  LET child == Append(parent, name) IN
  IF child \in s.bk
  THEN [err |-> ErrNil,
        store |-> [bk |-> {q \in s.bk : ~IsUnder(child, q)},
                   kv |-> {t \in s.kv : ~IsUnder(child, t[1])}]]
  ELSE IF HasKey(s, parent, name)
  THEN [err |-> Err("ErrIncompatibleValue", <<>>), store |-> s]
  ELSE [err |-> Err("ErrBucketNotFound", <<>>), store |-> s]

\* Faulty variant of BoltPut: a key that names a nested bucket is written as
\* a plain pair beside the bucket.
BoltPutBesideBucket(s, bucket, key, value) ==
  IF key = <<>>
  THEN [err |-> Err("ErrKeyRequired", <<>>), store |-> s]
  ELSE [err |-> ErrNil,
        store |-> [s EXCEPT !.kv = {t \in @ : ~(t[1] = bucket /\ t[2] = key)}
                                    \cup {<<bucket, key, value>>}]]

\* Bucket.Put
BoltPut(s, bucket, key, value) ==
  IF key = <<>>
  THEN [err |-> Err("ErrKeyRequired", <<>>), store |-> s]
  ELSE IF Append(bucket, key) \in s.bk
  THEN [err |-> Err("ErrIncompatibleValue", <<>>), store |-> s]
  ELSE [err |-> ErrNil,
        store |-> [s EXCEPT !.kv = {t \in @ : ~(t[1] = bucket /\ t[2] = key)}
                                    \cup {<<bucket, key, value>>}]]

\* Bucket.Get: nil for an absent key and for a nested bucket.
BoltGet(s, bucket, key) ==
  IF HasKey(s, bucket, key)
  THEN [found |-> TRUE, value |-> ValueOf(s, bucket, key)]
  ELSE NilValue

\* Bucket.Delete of github.com/boltdb/bolt: the cursor seeks to the first
\* entry >= key of the leaf page (a bucket of a few entries is one leaf); when
\* that entry is a nested bucket the call fails with ErrIncompatibleValue,
\* whether or not its name is the key; otherwise the key (if any) is removed.
BoltDelete(s, bucket, key) ==
  LET after == {e \in PlainKeys(s, bucket) \cup ChildNames(s, bucket) : BytesLeq(key, e)}
      seek  == SortBytes(after)
  IN  IF seek # <<>> /\ seek[1] \in ChildNames(s, bucket)
      THEN [err |-> Err("ErrIncompatibleValue", <<>>), store |-> s]
      ELSE [err |-> ErrNil,
            store |-> [s EXCEPT !.kv = {t \in @ : ~(t[1] = bucket /\ t[2] = key)}]]

(***************************************************************************)
(* mbuckets: the functions run inside one Bolt transaction                 *)
(***************************************************************************)

\* Result of a transaction function: error, the transaction's store when it
\* returns, and what the function handed back to its caller.
Out(err, s, value, names) ==
  [err |-> err, store |-> s, value |-> value, names |-> names, items |-> <<>>]

\* The same for the functions that hand back key/value pairs.
OutItems(err, s, items) == [Out(err, s, <<>>, <<>>) EXCEPT !.items = items]

\* The loop of the function never exits: DB.View does not return.
Diverges == Err("does not return", <<>>)

\* Item, the holder of a key/value pair.
Item(k, v) == [Key |-> k, Value |-> v]

\* Indexing buckets[0] of an empty segment list.
ErrPanic == Err("panic: index out of range", <<>>)

\* Faulty variant of UpdateChain: every segment is created at the top level
\* instead of inside the bucket of the previous segment.
RECURSIVE UpdateChainFlat(_, _, _, _)
UpdateChainFlat(s, bucket, buckets, idx) ==
  IF idx > Len(buckets) THEN [err |-> ErrNil, store |-> s, bucket |-> bucket]
  ELSE LET sub == BoltCreateBucketIfNotExists(s, <<>>, buckets[idx])
       IN  IF sub.err # ErrNil THEN sub
           ELSE UpdateChainFlat(sub.store, sub.bucket, buckets, idx + 1)

\* Bucket.Update, lines 160-171: create-if-missing below the root segment.
RECURSIVE UpdateChain(_, _, _, _)
UpdateChain(s, bucket, buckets, idx) ==
  IF idx > Len(buckets) THEN [err |-> ErrNil, store |-> s, bucket |-> bucket]
  ELSE LET sub == BoltCreateBucketIfNotExists(s, bucket.path, buckets[idx])
       IN  IF sub.err # ErrNil THEN sub
           ELSE UpdateChain(sub.store, sub.bucket, buckets, idx + 1)

\* Bucket.Update up to the call of fn: the terminal bucket, created if missing.
UpdateResolve(s, name, sep) ==
  LET buckets == Split(name, sep) IN
  IF buckets = <<>> THEN [err |-> ErrPanic, store |-> s, bucket |-> NoBucket]
  ELSE LET first == BoltCreateBucketIfNotExists(s, <<>>, buckets[1])
       IN  IF first.err # ErrNil THEN first
           ELSE UpdateChain(first.store, first.bucket, buckets, 2)

\* Faulty variant of ViewChain: the error names the missing segment instead
\* of the full name of the Bucket.
RECURSIVE ViewChainSegmentName(_, _, _, _, _)
ViewChainSegmentName(s, bucket, buckets, idx, name) ==
  IF idx > Len(buckets) THEN [err |-> ErrNil, bucket |-> bucket]
  ELSE LET sub == BoltBucket(s, bucket.path, buckets[idx])
       IN  IF ~sub.ok
           THEN [err |-> Err("Bucket not found", buckets[idx]), bucket |-> NoBucket]
           ELSE ViewChainSegmentName(s, sub, buckets, idx + 1, name)

\* Bucket.View, lines 188-201: look up below the root segment.
RECURSIVE ViewChain(_, _, _, _, _)
ViewChain(s, bucket, buckets, idx, name) ==
  IF idx > Len(buckets) THEN [err |-> ErrNil, bucket |-> bucket]
  ELSE LET sub == BoltBucket(s, bucket.path, buckets[idx])
       IN  IF ~sub.ok THEN [err |-> Err("Bucket not found", name), bucket |-> NoBucket]
           ELSE ViewChain(s, sub, buckets, idx + 1, name)

\* Bucket.View up to the call of fn: the terminal bucket, or an error.
ViewResolve(s, name, sep) ==
  LET buckets == Split(name, sep) IN
  IF buckets = <<>> THEN [err |-> ErrPanic, bucket |-> NoBucket]
  ELSE LET first == BoltBucket(s, <<>>, buckets[1])
       IN  IF ~first.ok THEN [err |-> Err("Bucket not found", name), bucket |-> NoBucket]
           ELSE ViewChain(s, first, buckets, 2, name)

\* Bucket.CreateBucket: Update with a function that does nothing.
CreateBucketTx(s, name, sep) ==
  LET r == UpdateResolve(s, name, sep)
  IN  Out(r.err, r.store, <<>>, <<>>)

\* Bucket.DeleteBucket, lines 228-243: walk to the parent of the terminal
\* segment and delete from it.
RECURSIVE DeleteChain(_, _, _, _, _)
DeleteChain(s, bucket, buckets, idx, name) ==
  IF idx > Len(buckets) THEN Out(ErrNil, s, <<>>, <<>>)
  ELSE IF idx = Len(buckets)
  THEN LET d == BoltDeleteBucket(s, bucket.path, buckets[1])
       IN  Out(d.err, d.store, <<>>, <<>>)
  ELSE LET sub == BoltBucket(s, bucket.path, buckets[idx])
       IN  IF ~sub.ok THEN Out(Err("Bucket not found", name), s, <<>>, <<>>)
           ELSE DeleteChain(s, sub, buckets, idx + 1, name)

\* Faulty variant of DeleteBucketTx: a single-segment path removes the
\* top-level bucket but keeps what was stored below it.
DeleteBucketTxShallow(s, name, sep) ==
  LET buckets == Split(name, sep) IN
  IF buckets = <<>> THEN Out(ErrPanic, s, <<>>, <<>>)
  ELSE IF Len(buckets) = 1
  THEN LET d == BoltDeleteBucket(s, <<>>, buckets[1])
       IN  Out(d.err, [s EXCEPT !.bk = @ \ {<<buckets[1]>>}], <<>>, <<>>)
  ELSE LET first == BoltBucket(s, <<>>, buckets[1])
       IN  IF ~first.ok THEN Out(Err("Bucket not found", name), s, <<>>, <<>>)
           ELSE DeleteChain(s, first, buckets, 2, name)

\* Bucket.DeleteBucket: the function passed to DB.Update.
DeleteBucketTx(s, name, sep) ==
  LET buckets == Split(name, sep) IN
  IF buckets = <<>> THEN Out(ErrPanic, s, <<>>, <<>>)
  ELSE IF Len(buckets) = 1
  THEN LET d == BoltDeleteBucket(s, <<>>, buckets[1])
       IN  Out(d.err, d.store, <<>>, <<>>)
  ELSE LET first == BoltBucket(s, <<>>, buckets[1])
       IN  IF ~first.ok THEN Out(Err("Bucket not found", name), s, <<>>, <<>>)
           ELSE DeleteChain(s, first, buckets, 2, name)

\* Faulty variant of InsertTx: the key is put with an empty value.
InsertTxDropsValue(s, name, sep, key, value) ==
  LET r == UpdateResolve(s, name, sep) IN
  IF r.err # ErrNil THEN Out(r.err, r.store, <<>>, <<>>)
  ELSE LET put == BoltPut(r.store, r.bucket.path, key, <<>>)
       IN  Out(put.err, put.store, <<>>, <<>>)

\* Faulty variant of InsertTx: a key that already holds a value keeps it.
InsertTxKeepsExisting(s, name, sep, key, value) ==
  LET r == UpdateResolve(s, name, sep) IN
  IF r.err # ErrNil THEN Out(r.err, r.store, <<>>, <<>>)
  ELSE IF HasKey(r.store, r.bucket.path, key) THEN Out(ErrNil, r.store, <<>>, <<>>)
  ELSE LET put == BoltPut(r.store, r.bucket.path, key, value)
       IN  Out(put.err, put.store, <<>>, <<>>)

\* Bucket.Insert
InsertTx(s, name, sep, key, value) ==
  LET r == UpdateResolve(s, name, sep) IN
  IF r.err # ErrNil THEN Out(r.err, r.store, <<>>, <<>>)
  ELSE LET put == BoltPut(r.store, r.bucket.path, key, value)
       IN  Out(put.err, put.store, <<>>, <<>>)

\* Faulty variant of PutAll: a failed put is skipped and the loop goes on.
RECURSIVE PutAllSkipsErrors(_, _, _, _)
PutAllSkipsErrors(s, bucket, items, i) ==
  IF i > Len(items) THEN [err |-> ErrNil, store |-> s]
  ELSE LET put == BoltPut(s, bucket, items[i].Key, items[i].Value)
       IN  PutAllSkipsErrors(put.store, bucket, items, i + 1)

\* Bucket.InsertAll, lines 309-315: put the items in order, stop at the
\* first error.
RECURSIVE PutAll(_, _, _, _)
PutAll(s, bucket, items, i) ==
  IF i > Len(items) THEN [err |-> ErrNil, store |-> s]
  ELSE LET put == BoltPut(s, bucket, items[i].Key, items[i].Value)
       IN  IF put.err # ErrNil THEN put
           ELSE PutAll(put.store, bucket, items, i + 1)

\* Bucket.InsertAll
InsertAllTx(s, name, sep, items) ==
  LET r == UpdateResolve(s, name, sep) IN
  IF r.err # ErrNil THEN Out(r.err, r.store, <<>>, <<>>)
  ELSE LET put == PutAll(r.store, r.bucket.path, items, 1)
       IN  Out(put.err, put.store, <<>>, <<>>)

\* Faulty variant of GetTx: an absent key yields an empty value and no error.
GetTxZeroValue(s, name, sep, key) ==
  LET r == ViewResolve(s, name, sep) IN
  IF r.err # ErrNil THEN Out(r.err, s, <<>>, <<>>)
  ELSE LET v == BoltGet(s, r.bucket.path, key)
       IN  Out(ErrNil, s, v.value, <<>>)

\* Bucket.Get
GetTx(s, name, sep, key) ==
  LET r == ViewResolve(s, name, sep) IN
  IF r.err # ErrNil THEN Out(r.err, s, <<>>, <<>>)
  ELSE LET v == BoltGet(s, r.bucket.path, key)
       IN  IF ~v.found THEN Out(Err("Key not found", key), s, <<>>, <<>>)
           ELSE Out(ErrNil, s, v.value, <<>>)

\* Faulty variant of DeleteTx: the path is resolved in read mode, as Get does,
\* so a missing bucket is an error and nothing is created.
DeleteTxReadMode(s, name, sep, key) ==
  LET r == ViewResolve(s, name, sep) IN
  IF r.err # ErrNil THEN Out(r.err, s, <<>>, <<>>)
  ELSE LET del == BoltDelete(s, r.bucket.path, key)
       IN  Out(del.err, del.store, <<>>, <<>>)

\* Faulty variant of DeleteTx: the path is resolved but nothing is deleted.
DeleteTxKeepsKey(s, name, sep, key) ==
  LET r == UpdateResolve(s, name, sep)
  IN  Out(r.err, r.store, <<>>, <<>>)

\* Bucket.Delete
DeleteTx(s, name, sep, key) ==
  LET r == UpdateResolve(s, name, sep) IN
  IF r.err # ErrNil THEN Out(r.err, r.store, <<>>, <<>>)
  ELSE LET del == BoltDelete(r.store, r.bucket.path, key)
       IN  Out(del.err, del.store, <<>>, <<>>)

\* Faulty variant of DBRootNamesTx: the last segment of every bucket of the
\* store is listed, nested ones included.
DBRootNamesTxAllLevels(s) ==
  Out(ErrNil, s, <<>>, SortBytes({q[Len(q)] : q \in s.bk}))

\* DB.GetRootBucketNames, the function passed to DB.Map: the names of the
\* top-level buckets in key order.
DBRootNamesTx(s) ==
  Out(ErrNil, s, <<>>, SortBytes(ChildNames(s, <<>>)))

\* Bucket.GetRootBucketNames, lines 471-479: the keys of the bucket's entries
\* whose value is nil (nested buckets), in key order.
BucketRootNamesTx(s, name, sep) ==
  LET r == ViewResolve(s, name, sep) IN
  IF r.err # ErrNil THEN Out(r.err, s, <<>>, <<>>)
  ELSE Out(ErrNil, s, <<>>, SortBytes(ChildNames(s, r.bucket.path)))

\* The entries of a bucket as a cursor visits them: plain keys and nested
\* buckets together, in key order.
Entries(s, path) == SortBytes(PlainKeys(s, path) \cup ChildNames(s, path))

\* Cursor.Seek: the position of the first entry >= key, or behind the last
\* entry when none follows (the cursor then yields the nil key).
CursorSeek(entries, key) ==
  LET at == {i \in 1..Len(entries) : BytesLeq(key, entries[i])}
  IN  IF at = {} THEN Len(entries) + 1
      ELSE CHOOSE i \in at : \A j \in at : i <= j

\* The key under the cursor; the nil key of an exhausted cursor has length 0,
\* which no entry has.
CursorKey(entries, i) == IF i <= Len(entries) THEN entries[i] ELSE <<>>

\* The key and value a cursor hands to fn; the value of a nested bucket is
\* nil.
CursorEntry(s, path, k) == [k |-> k, v |-> BoltGet(s, path, k)]

\* What a scan did: the calls of fn in order, and whether the scan returned.
Scanned(calls, returns) == [calls |-> calls, returns |-> returns]

\* Bucket.ForEach as used by Bucket.Map: fn is called with every entry from
\* the first on, until the cursor yields the nil key.
ForEachLoop(s, path, entries) ==
  Scanned([i \in 1..Len(entries) |-> CursorEntry(s, path, entries[i])], TRUE)

\* Faulty variant of PrefixLoop: the scan ends at the first nested bucket.
RECURSIVE PrefixLoopStopsAtBucket(_, _, _, _, _, _)
PrefixLoopStopsAtBucket(s, path, entries, i, prefix, calls) ==
  LET k == CursorKey(entries, i) IN
  IF ~HasPrefix(k, prefix) \/ ~BoltGet(s, path, k).found
  THEN Scanned(calls, TRUE)
  ELSE PrefixLoopStopsAtBucket(s, path, entries, i + 1, prefix,
                               Append(calls, CursorEntry(s, path, k)))

\* Bucket.MapPrefix, line 261: the loop goes on while the key under the
\* cursor has the prefix.  The nil key of the exhausted cursor has the empty
\* prefix, and Cursor.Next keeps yielding it: the loop then never exits.
RECURSIVE PrefixLoop(_, _, _, _, _, _)
PrefixLoop(s, path, entries, i, prefix, calls) ==
  LET k == CursorKey(entries, i) IN
  IF ~HasPrefix(k, prefix) THEN Scanned(calls, TRUE)
  ELSE IF i > Len(entries) THEN Scanned(calls, FALSE)
  ELSE PrefixLoop(s, path, entries, i + 1, prefix,
                  Append(calls, CursorEntry(s, path, k)))

\* Faulty variant of RangeLoop: the upper bound is exclusive.
RECURSIVE RangeLoopExclusive(_, _, _, _, _, _)
RangeLoopExclusive(s, path, entries, i, max, calls) ==
  IF i > Len(entries) \/ BytesLeq(max, entries[i])
  THEN Scanned(calls, TRUE)
  ELSE RangeLoopExclusive(s, path, entries, i + 1, max,
                          Append(calls, CursorEntry(s, path, entries[i])))

\* Bucket.MapRange, line 277: the loop goes on while the cursor yields a key
\* and bytes.Compare(k, max) <= 0.
RECURSIVE RangeLoop(_, _, _, _, _, _)
RangeLoop(s, path, entries, i, max, calls) ==
  IF i > Len(entries) \/ ~BytesLeq(entries[i], max)
  THEN Scanned(calls, TRUE)
  ELSE RangeLoop(s, path, entries, i + 1, max,
                 Append(calls, CursorEntry(s, path, entries[i])))

\* Bucket.Map, Bucket.MapPrefix and Bucket.MapRange: View, then the scan of
\* the terminal bucket.
MapScan(s, name, sep) ==
  LET r == ViewResolve(s, name, sep) IN
  IF r.err # ErrNil THEN [err |-> r.err, scan |-> Scanned(<<>>, TRUE)]
  ELSE [err |-> ErrNil,
        scan |-> ForEachLoop(s, r.bucket.path, Entries(s, r.bucket.path))]

MapPrefixScan(s, name, sep, prefix) ==
  LET r == ViewResolve(s, name, sep) IN
  IF r.err # ErrNil THEN [err |-> r.err, scan |-> Scanned(<<>>, TRUE)]
  ELSE LET entries == Entries(s, r.bucket.path)
       IN  [err |-> ErrNil,
            scan |-> PrefixLoop(s, r.bucket.path, entries,
                                CursorSeek(entries, prefix), prefix, <<>>)]

MapRangeScan(s, name, sep, min, max) ==
  LET r == ViewResolve(s, name, sep) IN
  IF r.err # ErrNil THEN [err |-> r.err, scan |-> Scanned(<<>>, TRUE)]
  ELSE LET entries == Entries(s, r.bucket.path)
       IN  [err |-> ErrNil,
            scan |-> RangeLoop(s, r.bucket.path, entries,
                               CursorSeek(entries, min), max, <<>>)]

\* Faulty variant of CollectItem: the nil check is missing, so a nested bucket
\* is copied to the result with an empty value.
CollectItemNoNilCheck(e, items) == Append(items, Item(e.k, e.v.value))

\* The function GetAll, GetPrefix and GetRange pass to the scan (lines
\* 366-375): an entry with a non-nil value is copied and appended.
CollectItem(e, items) ==
  IF e.v.found THEN Append(items, Item(e.k, e.v.value)) ELSE items

\* The slice of Items after the calls of that function.
RECURSIVE CollectItems(_, _, _)
CollectItems(calls, i, items) ==
  IF i > Len(calls) THEN items
  ELSE CollectItems(calls, i + 1, CollectItem(calls[i], items))

\* What GetAll, GetPrefix and GetRange return after the scan m.
ItemsOut(s, m) ==
  IF ~m.scan.returns THEN OutItems(Diverges, s, <<>>)
  ELSE OutItems(m.err, s, CollectItems(m.scan.calls, 1, <<>>))

\* Bucket.GetAll
GetAllTx(s, name, sep) == ItemsOut(s, MapScan(s, name, sep))

\* Bucket.GetPrefix
GetPrefixTx(s, name, sep, prefix) ==
  ItemsOut(s, MapPrefixScan(s, name, sep, prefix))

\* Bucket.GetRange
GetRangeTx(s, name, sep, min, max) ==
  ItemsOut(s, MapRangeScan(s, name, sep, min, max))

\* A Go string holds bytes: string(b) copies the bytes of b into a string,
\* []byte(x) copies the bytes of the string x into a slice.
StringOf(b) == [str |-> b]
BytesOf(x) == x.str
EmptyString == StringOf(<<>>)

\* Bucket.InsertString
InsertStringTx(s, name, sep, key, value) ==
  InsertTx(s, name, sep, BytesOf(key), BytesOf(value))

\* Bucket.DeleteString
DeleteStringTx(s, name, sep, key) == DeleteTx(s, name, sep, BytesOf(key))

\* Bucket.GetString
GetStringTx(s, name, sep, key) ==
  LET r == ViewResolve(s, name, sep) IN
  IF r.err # ErrNil THEN Out(r.err, s, EmptyString, <<>>)
  ELSE LET v == BoltGet(s, r.bucket.path, BytesOf(key))
       IN  IF ~v.found
           THEN Out(Err("Key not found", BytesOf(key)), s, EmptyString, <<>>)
           ELSE Out(ErrNil, s, StringOf(v.value), <<>>)

\* Faulty variant of PutAllString: a failed put is skipped and the loop goes
\* on.
RECURSIVE PutAllStringSkipsErrors(_, _, _, _)
PutAllStringSkipsErrors(s, bucket, order, i) ==
  IF i > Len(order) THEN [err |-> ErrNil, store |-> s]
  ELSE LET put == BoltPut(s, bucket, BytesOf(order[i].Key), BytesOf(order[i].Value))
       IN  PutAllStringSkipsErrors(put.store, bucket, order, i + 1)

\* Bucket.InsertAllString, lines 322-328: the pairs of the map are put in the
\* order the range over the map yields them (order: the pairs in that
\* order); the loop stops at the first error.
RECURSIVE PutAllString(_, _, _, _)
PutAllString(s, bucket, order, i) ==
  IF i > Len(order) THEN [err |-> ErrNil, store |-> s]
  ELSE LET put == BoltPut(s, bucket, BytesOf(order[i].Key), BytesOf(order[i].Value))
       IN  IF put.err # ErrNil THEN put
           ELSE PutAllString(put.store, bucket, order, i + 1)

\* Bucket.InsertAllString
InsertAllStringTx(s, name, sep, order) ==
  LET r == UpdateResolve(s, name, sep) IN
  IF r.err # ErrNil THEN Out(r.err, r.store, <<>>, <<>>)
  ELSE LET put == PutAllString(r.store, r.bucket.path, order, 1)
       IN  Out(put.err, put.store, <<>>, <<>>)

\* items[k] = v on a map[string]string, a set of pairs with one pair per key.
MapPut(m, k, v) == {e \in m : e.Key # k} \cup {Item(k, v)}

\* The function GetAllString, GetPrefixString and GetRangeString pass to the
\* scan (lines 383-388): an entry with a non-nil value is put into the map.
CollectString(e, m) ==
  IF e.v.found THEN MapPut(m, StringOf(e.k), StringOf(e.v.value)) ELSE m

\* The map after the calls of that function.
RECURSIVE CollectStrings(_, _, _)
CollectStrings(calls, i, m) ==
  IF i > Len(calls) THEN m
  ELSE CollectStrings(calls, i + 1, CollectString(calls[i], m))

\* What GetAllString, GetPrefixString and GetRangeString return after the
\* scan m.
StringsOut(s, m) ==
  IF ~m.scan.returns THEN OutItems(Diverges, s, {})
  ELSE OutItems(m.err, s, CollectStrings(m.scan.calls, 1, {}))

\* Bucket.GetAllString
GetAllStringTx(s, name, sep) == StringsOut(s, MapScan(s, name, sep))

\* Bucket.GetPrefixString
GetPrefixStringTx(s, name, sep, prefix) ==
  StringsOut(s, MapPrefixScan(s, name, sep, BytesOf(prefix)))

\* Bucket.GetRangeString
GetRangeStringTx(s, name, sep, min, max) ==
  StringsOut(s, MapRangeScan(s, name, sep, BytesOf(min), BytesOf(max)))

(***************************************************************************)
(* Byte slices that share backing arrays                                   *)
(*                                                                         *)
(* A heap is a sequence of backing arrays (an array's length is its        *)
(* capacity); a slice is an array and a length.  Names handed to           *)
(* bytes.NewBuffer keep their backing array, so the heap is part of the    *)
(* state of a discovery walk.                                              *)
(***************************************************************************)

Zeros(n) == [i \in 1..n |-> "0"]

SliceVal(h, sl) == SubSeq(h[sl.arr], 1, sl.len)
SliceCap(h, sl) == Len(h[sl.arr])

\* make([]byte, len(b)) followed by copy, with `spare` unused bytes of
\* capacity behind the contents.
AllocSlice(h, bytes, spare) ==
  [heap |-> Append(h, bytes \o Zeros(spare)),
   slice |-> [arr |-> Len(h) + 1, len |-> Len(bytes)]]

\* The malloc size classes that the append in bytes.growSlice rounds up to.
SizeClasses == {8, 16, 24, 32, 48, 64, 80, 96, 112, 128}
RoundUpSize(n) == CHOOSE c \in SizeClasses : c >= n /\ \A d \in SizeClasses : d >= n => c <= d

\* bytes.growSlice (Go 1.20 and later): capacity of the array a full buffer
\* moves to, max(len + n, 2 * cap) rounded up to a size class.  Earlier
\* releases allocate exactly 2 * cap + n; a built name then gets its spare
\* capacity one level deeper in the tree.
GrowCap(cap, len, n) ==
  RoundUpSize(IF len + n < 2 * cap THEN 2 * cap ELSE len + n)

\* bytes.Buffer.Write on the buffer whose contents are slice sl: in place when
\* the capacity allows (tryGrowByReslice), else into a new, larger array.
BufferWrite(h, sl, p) ==
  IF Len(p) <= SliceCap(h, sl) - sl.len
  THEN [heap |-> [h EXCEPT ![sl.arr] =
                    [i \in 1..Len(@) |-> IF i > sl.len /\ i <= sl.len + Len(p)
                                         THEN p[i - sl.len] ELSE @[i]]],
        slice |-> [arr |-> sl.arr, len |-> sl.len + Len(p)]]
  ELSE LET newcap == GrowCap(SliceCap(h, sl), sl.len, Len(p))
           bytes  == SliceVal(h, sl) \o p
       IN  AllocSlice(h, bytes, newcap - Len(bytes))

\* Bucket.GetRootBucketNames, lines 486-491: for each child name a buffer
\* that starts as the handle's Name, then the separator and the child name
\* are written to it.  Returns the heap and the slices of the full names.
RECURSIVE BuildNames(_, _, _, _, _)
BuildNames(h, nameSlice, sep, names, i) ==
  IF i > Len(names) THEN [heap |-> h, slices |-> <<>>]
  ELSE LET w1   == BufferWrite(h, nameSlice, sep)
           w2   == BufferWrite(w1.heap, w1.slice, names[i])
           rest == BuildNames(w2.heap, nameSlice, sep, names, i + 1)
       IN  [heap |-> rest.heap, slices |-> <<w2.slice>> \o rest.slices]

\* DB.GetRootBucketNames, lines 64-66: every name is copied to an array of
\* exactly its length.
RECURSIVE CopyNames(_, _, _)
CopyNames(h, names, i) ==
  IF i > Len(names) THEN [heap |-> h, slices |-> <<>>]
  ELSE LET a    == AllocSlice(h, names[i], 0)
           rest == CopyNames(a.heap, names, i + 1)
       IN  [heap |-> rest.heap, slices |-> <<a.slice>> \o rest.slices]

SliceVals(h, slices) == [i \in 1..Len(slices) |-> SliceVal(h, slices[i])]

(***************************************************************************)
(* The discovery walks, one transaction at a time                          *)
(***************************************************************************)

\* State of a walk between two transactions.
\*   phase   which call the next transaction belongs to:
\*           "dbroots"  DB.GetRootBucketNames
\*           "broots"   the first Bucket.GetRootBucketNames (line 500)
\*           "expand"   Bucket.GetRootBucketNames of a popped name (line 514)
\*   handle  Name of the Bucket the next transaction resolves
\*   roots, ri, acc       DB.GetAllBucketNames: bucketNames, loop index,
\*                        allBucketNames
\*   q, n, sub            Bucket.GetAllBucketNames: bucketNames,
\*                        numBucketsToProcess, allBucketNames
\*   out, err, next       what the walk returns, and whether it goes on
\* Bookkeeping, not part of the program:
\*   qv      the contents each name in q had when it was appended to q
\*   hv      the contents handle had when it was appended to q (or to roots)
\*   looked  the names the walk has resolved so far, in order
NoSlice == [arr |-> 0, len |-> 0]
NoWalk ==
  [phase |-> "none", heap |-> <<>>, handle |-> NoSlice,
   roots |-> <<>>, ri |-> 0, acc |-> <<>>,
   q |-> <<>>, n |-> 0, sub |-> <<>>,
   out |-> <<>>, err |-> ErrNil, next |-> "ret",
   qv |-> <<>>, hv |-> <<>>, looked |-> <<>>]

WalkDone(w, out, err) ==
  [w EXCEPT !.phase = "done", !.out = out, !.err = err, !.next = "ret"]

\* DB.GetAllBucketNames, lines 82-93: head of the loop over the root names.
DBLoop(w) ==
  IF w.ri > Len(w.roots) THEN WalkDone(w, w.acc, ErrNil)
  ELSE [w EXCEPT !.acc = Append(@, w.roots[w.ri]),
                 !.handle = w.roots[w.ri],
                 !.hv = SliceVal(w.heap, w.roots[w.ri]),
                 !.phase = "broots", !.next = "begin"]

\* Bucket.GetAllBucketNames returns (names, err) to its caller: to the
\* caller of the operation, or to the loop of DB.GetAllBucketNames.
BucketWalkReturn(w, db, names, err) ==
  IF ~db THEN WalkDone(w, names, err)
  ELSE IF err # ErrNil THEN WalkDone(w, w.acc, err)
  ELSE DBLoop([w EXCEPT !.acc = @ \o names, !.ri = @ + 1])

\* Faulty variant of BucketLoop: the pop leaves numBucketsToProcess as it is.
BucketLoopKeepsCount(w, db) ==
  IF w.n > 0
  THEN IF w.q = <<>> THEN BucketWalkReturn(w, db, w.sub, ErrPanic)
       ELSE [w EXCEPT !.q = Tail(@),
                      !.sub = Append(@, Head(w.q)),
                      !.handle = Head(w.q),
                      !.qv = Tail(@), !.hv = Head(w.qv),
                      !.phase = "expand", !.next = "begin"]
  ELSE BucketWalkReturn(w, db, w.sub, ErrNil)

\* Bucket.GetAllBucketNames, lines 508-525: head of the work-queue loop.
BucketLoop(w, db) ==
  IF w.n > 0
  THEN IF w.q = <<>> THEN BucketWalkReturn(w, db, w.sub, ErrPanic)
       ELSE [w EXCEPT !.q = Tail(@), !.n = @ - 1,
                      !.sub = Append(@, Head(w.q)),
                      !.handle = Head(w.q),
                      !.qv = Tail(@), !.hv = Head(w.qv),
                      !.phase = "expand", !.next = "begin"]
  ELSE BucketWalkReturn(w, db, w.sub, ErrNil)

IsDBWalk(op) ==
  op \in {"DBGetAllBucketNames", "DBGetAllBucketNamesWithSeparator",
          "DBGetRootBucketNames", "OldDBGetAllBucketNames"}
IsBucketWalk(op) ==
  op \in {"GetAllBucketNames", "GetRootBucketNames", "OldGetAllBucketNames"}

\* The separator of the handles a walk creates: DB.GetAllBucketNames uses
\* DB.Bucket, which sets the default; DB.GetAllBucketNamesWithSeparator and
\* Bucket.GetAllBucketNames pass their own on.
WalkSep(c) == IF c.op = "DBGetAllBucketNames" THEN DefaultSeparator ELSE c.sep

\* What a walk does between the end of one transaction and the start of the
\* next: r is the result of the transaction that just ended.
WalkStep(w0, c, r) ==
  LET db == IsDBWalk(c.op)
      w  == IF w0.phase = "dbroots" THEN w0
            ELSE [w0 EXCEPT !.looked = Append(@, SliceVal(w0.heap, w0.handle))]
  IN
  CASE w.phase = "dbroots" ->
         LET cp == CopyNames(w.heap, r.names, 1)
             w1 == [w EXCEPT !.heap = cp.heap, !.roots = cp.slices, !.ri = 1]
         IN  IF r.err # ErrNil THEN WalkDone(w, <<>>, r.err)
             ELSE IF c.op = "DBGetRootBucketNames" THEN WalkDone(w1, cp.slices, ErrNil)
             ELSE DBLoop(w1)
    [] w.phase = "broots" ->
         LET b  == BuildNames(w.heap, w.handle, WalkSep(c), r.names, 1)
             w1 == [w EXCEPT !.heap = b.heap]
         IN  IF r.err # ErrNil
             THEN IF c.op = "GetRootBucketNames" THEN WalkDone(w, <<>>, r.err)
                  ELSE BucketWalkReturn(w, db, <<>>, r.err)
             ELSE IF c.op = "GetRootBucketNames" THEN WalkDone(w1, b.slices, ErrNil)
             ELSE BucketLoop([w1 EXCEPT !.q = b.slices, !.n = Len(b.slices),
                                        !.sub = <<>>,
                                        !.qv = SliceVals(b.heap, b.slices)], db)
    [] w.phase = "expand" ->
         LET b  == BuildNames(w.heap, w.handle, WalkSep(c), r.names, 1)
         IN  IF r.err # ErrNil THEN BucketWalkReturn(w, db, w.sub, r.err)
             ELSE BucketLoop([w EXCEPT !.heap = b.heap,
                                       !.n = @ + Len(b.slices),
                                       !.q = @ \o b.slices,
                                       !.qv = @ \o SliceVals(b.heap, b.slices)],
                            db)

\* The walks of the earlier implementation (src/unnamed/part_000), which has
\* no list allBucketNames in Bucket.GetAllBucketNames: what it returns is the
\* work queue bucketNames itself.
IsOldWalk(op) == op \in {"OldGetAllBucketNames", "OldDBGetAllBucketNames"}

\* Earlier DB.GetAllBucketNames, lines 68-77: head of the loop over the root
\* names; the root name itself is not appended to allBucketNames.
OldDBLoop(w) ==
  IF w.ri > Len(w.roots) THEN WalkDone(w, w.acc, ErrNil)
  ELSE [w EXCEPT !.handle = w.roots[w.ri],
                 !.hv = SliceVal(w.heap, w.roots[w.ri]),
                 !.phase = "broots", !.next = "begin"]

\* Earlier Bucket.GetAllBucketNames returns (names, err) to its caller: to
\* the caller of the operation, or to the loop of DB.GetAllBucketNames.
OldBucketWalkReturn(w, db, names, err) ==
  IF ~db THEN WalkDone(w, names, err)
  ELSE IF err # ErrNil THEN WalkDone(w, w.acc, err)
  ELSE OldDBLoop([w EXCEPT !.acc = @ \o names, !.ri = @ + 1])

\* Earlier Bucket.GetAllBucketNames, lines 381-397: head of the work-queue
\* loop; the popped name is kept nowhere, and the loop's exit returns the
\* queue.
OldBucketLoop(w, db) ==
  IF w.n > 0
  THEN IF w.q = <<>> THEN OldBucketWalkReturn(w, db, w.q, ErrPanic)
       ELSE [w EXCEPT !.q = Tail(@), !.n = @ - 1,
                      !.sub = Append(@, Head(w.q)),
                      !.handle = Head(w.q),
                      !.qv = Tail(@), !.hv = Head(w.qv),
                      !.phase = "expand", !.next = "begin"]
  ELSE OldBucketWalkReturn(w, db, w.q, ErrNil)

\* What an earlier walk does between the end of one transaction and the
\* start of the next: r is the result of the transaction that just ended.
OldWalkStep(w0, c, r) ==
  LET db == IsDBWalk(c.op)
      w  == IF w0.phase = "dbroots" THEN w0
            ELSE [w0 EXCEPT !.looked = Append(@, SliceVal(w0.heap, w0.handle))]
  IN
  CASE w.phase = "dbroots" ->
         LET cp == CopyNames(w.heap, r.names, 1)
             w1 == [w EXCEPT !.heap = cp.heap, !.roots = cp.slices, !.ri = 1]
         IN  IF r.err # ErrNil THEN WalkDone(w, <<>>, r.err)
             ELSE OldDBLoop(w1)
    [] w.phase = "broots" ->
         LET b  == BuildNames(w.heap, w.handle, WalkSep(c), r.names, 1)
             w1 == [w EXCEPT !.heap = b.heap]
         IN  IF r.err # ErrNil THEN OldBucketWalkReturn(w, db, <<>>, r.err)
             ELSE OldBucketLoop([w1 EXCEPT !.q = b.slices, !.n = Len(b.slices),
                                           !.sub = <<>>,
                                           !.qv = SliceVals(b.heap, b.slices)], db)
    [] w.phase = "expand" ->
         LET b  == BuildNames(w.heap, w.handle, WalkSep(c), r.names, 1)
         IN  IF r.err # ErrNil THEN OldBucketWalkReturn(w, db, w.q, r.err)
             ELSE OldBucketLoop([w EXCEPT !.heap = b.heap,
                                          !.n = @ + Len(b.slices),
                                          !.q = @ \o b.slices,
                                          !.qv = @ \o SliceVals(b.heap, b.slices)],
                               db)

\* The walk state when the operation is called.
WalkStart(c) ==
  IF IsDBWalk(c.op) THEN [NoWalk EXCEPT !.phase = "dbroots", !.next = "begin"]
  ELSE IF IsBucketWalk(c.op)
  THEN LET a == AllocSlice(<<>>, c.name, c.spare)
       IN  [NoWalk EXCEPT !.phase = "broots", !.heap = a.heap,
                          !.handle = a.slice, !.hv = c.name, !.next = "begin"]
  ELSE NoWalk

(***************************************************************************)
(* Callers and transactions                                                *)
(***************************************************************************)

Callers == {1, 2}

VARIABLES
  store,   \* the committed contents of the database file
  pc,      \* pc[p]: "idle", or where caller p is in its operation:
           \*   "begin" about to open a transaction, "run" inside the
           \*   transaction function, "end" about to commit or roll back,
           \*   "ret" about to return, "spin" inside a transaction function
           \*   that never returns
  cur,     \* cur[p]: the operation caller p is executing and its arguments
  tx,      \* tx[p]: the transaction caller p has open: "none", "read", "write"
  txs,     \* txs[p]: the store as the open transaction of p sees it
  res,     \* res[p]: result of the transaction function that last ran
  walk,    \* walk[p]: state of p's discovery walk
  pre,     \* pre[p]: the committed store when p called its operation
  post,    \* post[p]: the committed store when p's last transaction ended
  ret,     \* ret[p]: the operation p completed last, and what it returned
  lastPut, \* the last committed Insert whose entry no later commit changed
  lastAll, \* the last committed InsertAll that created its bucket, until a
           \* later commit changes the store
  seen     \* seen[p]: the bucket paths that have existed in the committed
           \* store at some moment since p called the operation it is
           \* executing

vars ==
  <<store, pc, cur, tx, txs, res, walk, pre, post, ret, lastPut, lastAll, seen>>

WriteOps == {"CreateBucket", "DeleteBucket", "Insert", "InsertAll", "Delete",
             "InsertString", "InsertAllString", "DeleteString"}

NoCall == [op |-> "none", name |-> <<>>, sep |-> <<>>, key |-> <<>>,
           value |-> <<>>, items |-> <<>>, spare |-> 0,
           prefix |-> <<>>, min |-> <<>>, max |-> <<>>]
NoRes == [err |-> ErrNil, value |-> <<>>, names |-> <<>>, items |-> <<>>]
NoRet == [call |-> NoCall, err |-> ErrNil, value |-> <<>>, names |-> <<>>,
          items |-> <<>>, pre |-> EmptyStore, post |-> EmptyStore,
          seen |-> {}]
NoPut == [valid |-> FALSE, name |-> <<>>, sep |-> <<>>, key |-> <<>>,
          value |-> <<>>, old |-> NilValue]
NoAll == [valid |-> FALSE, name |-> <<>>, sep |-> <<>>, items |-> <<>>]

\* Constructors of calls: DB.Bucket(name).WithSeparator(sep) and the method.
BucketCall(op, name, sep) == [NoCall EXCEPT !.op = op, !.name = name, !.sep = sep]
KeyCall(op, name, sep, key) == [BucketCall(op, name, sep) EXCEPT !.key = key]
InsertCall(name, sep, key, value) ==
  [KeyCall("Insert", name, sep, key) EXCEPT !.value = value]
InsertAllCall(name, sep, items) ==
  [BucketCall("InsertAll", name, sep) EXCEPT !.items = items]
WalkCall(op, name, sep, spare) ==
  [BucketCall(op, name, sep) EXCEPT !.spare = spare]
PrefixCall(name, sep, prefix) ==
  [BucketCall("GetPrefix", name, sep) EXCEPT !.prefix = prefix]
RangeCall(name, sep, min, max) ==
  [BucketCall("GetRange", name, sep) EXCEPT !.min = min, !.max = max]
\* The string variants take Go strings where the byte variants take slices;
\* InsertAllString takes a map, given here as its pairs in the order the
\* range over the map yields them.
InsertStringCall(name, sep, key, value) ==
  [KeyCall("InsertString", name, sep, key) EXCEPT !.value = value]
InsertAllStringCall(name, sep, order) ==
  [BucketCall("InsertAllString", name, sep) EXCEPT !.items = order]
PrefixStringCall(name, sep, prefix) ==
  [BucketCall("GetPrefixString", name, sep) EXCEPT !.prefix = prefix]
RangeStringCall(name, sep, min, max) ==
  [BucketCall("GetRangeString", name, sep) EXCEPT !.min = min, !.max = max]
DBCall(op) == [NoCall EXCEPT !.op = op, !.sep = DefaultSeparator]
DBSepCall(sep) ==
  [NoCall EXCEPT !.op = "DBGetAllBucketNamesWithSeparator", !.sep = sep]

Init ==
  /\ store = EmptyStore
  /\ pc = [p \in Callers |-> "idle"]
  /\ cur = [p \in Callers |-> NoCall]
  /\ tx = [p \in Callers |-> "none"]
  /\ txs = [p \in Callers |-> EmptyStore]
  /\ res = [p \in Callers |-> NoRes]
  /\ walk = [p \in Callers |-> NoWalk]
  /\ pre = [p \in Callers |-> EmptyStore]
  /\ post = [p \in Callers |-> EmptyStore]
  /\ ret = [p \in Callers |-> NoRet]
  /\ lastPut = NoPut
  /\ lastAll = NoAll
  /\ seen = [p \in Callers |-> {}]

\* Caller p builds a Bucket handle (or uses the DB) and calls a method.
Call(p, c) ==
  /\ pc[p] = "idle"
  /\ cur' = [cur EXCEPT ![p] = c]
  /\ walk' = [walk EXCEPT ![p] = WalkStart(c)]
  /\ pre' = [pre EXCEPT ![p] = store]
  /\ ret' = [ret EXCEPT ![p] = NoRet]
  /\ post' = [post EXCEPT ![p] = store]
  /\ pc' = [pc EXCEPT ![p] = "begin"]
  /\ seen' = [seen EXCEPT ![p] = store.bk]
  /\ UNCHANGED <<store, tx, txs, res, lastPut, lastAll>>

\* Faulty variant of WriterLockFree: a write transaction never waits.
WriterLockIgnored(p) == TRUE

\* bolt DB.Update takes the writer lock of the database: a write transaction
\* starts only when no caller has one open.
WriterLockFree(p) == \A q \in Callers : tx[q] # "write"

\* Faulty variant of Snapshot: a transaction starts from the uncommitted
\* store of a write transaction whose function has run, when there is one.
SnapshotUncommitted(p) ==
  LET dirty == {q \in Callers : tx[q] = "write" /\ pc[q] = "end"}
  IN  IF dirty = {} THEN store ELSE txs[CHOOSE q \in dirty : TRUE]

\* What a transaction that starts now sees: the committed store.
Snapshot(p) == store

\* bolt DB.Update / DB.View open the transaction: a write transaction waits
\* for the writer lock, and every transaction starts from the committed store.
BeginTx(p) ==
  /\ pc[p] = "begin"
  /\ IF cur[p].op \in WriteOps
     THEN /\ WriterLockFree(p)
          /\ tx' = [tx EXCEPT ![p] = "write"]
     ELSE tx' = [tx EXCEPT ![p] = "read"]
  /\ txs' = [txs EXCEPT ![p] = Snapshot(p)]
  /\ pc' = [pc EXCEPT ![p] = "run"]
  /\ UNCHANGED <<store, cur, res, walk, pre, post, ret, lastPut, lastAll, seen>>

\* The function the operation passes to DB.Update / DB.View.
TxFn(s, c, w) ==
  CASE c.op = "CreateBucket" -> CreateBucketTx(s, c.name, c.sep)
    [] c.op = "DeleteBucket" -> DeleteBucketTx(s, c.name, c.sep)
    [] c.op = "Insert"       -> InsertTx(s, c.name, c.sep, c.key, c.value)
    [] c.op = "InsertAll"    -> InsertAllTx(s, c.name, c.sep, c.items)
    [] c.op = "Get"          -> GetTx(s, c.name, c.sep, c.key)
    [] c.op = "Delete"       -> DeleteTx(s, c.name, c.sep, c.key)
    [] c.op = "GetAll"       -> GetAllTx(s, c.name, c.sep)
    [] c.op = "GetPrefix"    -> GetPrefixTx(s, c.name, c.sep, c.prefix)
    [] c.op = "GetRange"     -> GetRangeTx(s, c.name, c.sep, c.min, c.max)
    [] c.op = "InsertString" -> InsertStringTx(s, c.name, c.sep, c.key, c.value)
    [] c.op = "InsertAllString" -> InsertAllStringTx(s, c.name, c.sep, c.items)
    [] c.op = "GetString"    -> GetStringTx(s, c.name, c.sep, c.key)
    [] c.op = "DeleteString" -> DeleteStringTx(s, c.name, c.sep, c.key)
    [] c.op = "GetAllString" -> GetAllStringTx(s, c.name, c.sep)
    [] c.op = "GetPrefixString" -> GetPrefixStringTx(s, c.name, c.sep, c.prefix)
    [] c.op = "GetRangeString" ->
         GetRangeStringTx(s, c.name, c.sep, c.min, c.max)
    [] w.phase = "dbroots"   -> DBRootNamesTx(s)
    [] w.phase \in {"broots", "expand"} ->
         BucketRootNamesTx(s, SliceVal(w.heap, w.handle), WalkSep(c))

\* The transaction function runs against the transaction's view of the
\* store; when it never returns, the caller stays inside it with the
\* transaction open.
RunTx(p) ==
  /\ pc[p] = "run"
  /\ LET out == TxFn(txs[p], cur[p], walk[p]) IN
       IF out.err = Diverges
       THEN /\ pc' = [pc EXCEPT ![p] = "spin"]
            /\ UNCHANGED <<txs, res>>
       ELSE /\ txs' = [txs EXCEPT ![p] = out.store]
            /\ res' = [res EXCEPT ![p] =
                         [err |-> out.err, value |-> out.value,
                          names |-> out.names, items |-> out.items]]
            /\ pc' = [pc EXCEPT ![p] = "end"]
  /\ UNCHANGED <<store, cur, tx, walk, pre, post, ret, lastPut, lastAll, seen>>

\* Faulty variant of Committed: a write transaction is committed even when
\* its function returned an error.
CommittedAlways(kind, err, s, work) ==
  IF kind = "write" THEN work ELSE s

\* Faulty variant of Committed: a transaction whose function returned nil is
\* committed whether it was opened by DB.Update or by DB.View, so the end of
\* a read transaction installs the store it started from.
CommittedReadOnlyToo(kind, err, s, work) ==
  IF err = ErrNil THEN work ELSE s

\* bolt DB.Update commits when the function returned nil and rolls back
\* otherwise; DB.View always rolls back.
Committed(kind, err, s, work) ==
  IF kind = "write" /\ err = ErrNil THEN work ELSE s

\* Bookkeeping for the round-trip property, not part of the program: a
\* committed Insert is remembered, with what the key held before it, until a
\* later commit changes the entry it wrote.
TrackPut(c, err, old, new) ==
  IF c.op = "Insert" /\ err = ErrNil
  THEN [valid |-> TRUE, name |-> c.name, sep |-> c.sep, key |-> c.key,
        value |-> c.value, old |-> BoltGet(old, Split(c.name, c.sep), c.key)]
  ELSE IF lastPut.valid
          /\ LET path == Split(lastPut.name, lastPut.sep)
             IN  \/ BoltGet(new, path, lastPut.key) # BoltGet(old, path, lastPut.key)
                 \/ (path \in new.bk) # (path \in old.bk)
  THEN NoPut
  ELSE lastPut

\* Bookkeeping for the GetAll property, not part of the program: a committed
\* InsertAll whose terminal bucket did not exist before is remembered until a
\* later commit changes the store.
TrackAll(c, err, old, new) ==
  IF c.op = "InsertAll" /\ err = ErrNil /\ Split(c.name, c.sep) \notin old.bk
  THEN [valid |-> TRUE, name |-> c.name, sep |-> c.sep, items |-> c.items]
  ELSE IF new # old THEN NoAll
  ELSE lastAll

\* Bookkeeping, not part of the program: every caller inside an operation
\* notes the buckets of the store that a transaction's end leaves committed.
TrackSeen(new) ==
  [q \in Callers |-> IF pc[q] = "idle" THEN seen[q] ELSE seen[q] \cup new.bk]

\* Faulty variant of TxClosed: the transaction stays open when its function
\* returned an error.
TxLeftOpenOnError(kind, err) == IF err = ErrNil THEN "none" ELSE kind

\* A transaction that ended is closed, whatever its function returned.
TxClosed(kind, err) == "none"

\* The transaction ends, and the operation goes on to its next transaction
\* or to its return.
EndTx(p) ==
  /\ pc[p] = "end"
  /\ store' = Committed(tx[p], res[p].err, store, txs[p])
  /\ post' = [post EXCEPT ![p] = store']
  /\ lastPut' = TrackPut(cur[p], res[p].err, store, store')
  /\ lastAll' = TrackAll(cur[p], res[p].err, store, store')
  /\ seen' = TrackSeen(store')
  /\ tx' = [tx EXCEPT ![p] = TxClosed(tx[p], res[p].err)]
  /\ txs' = [txs EXCEPT ![p] = EmptyStore]
  /\ IF walk[p].phase = "none"
     THEN /\ pc' = [pc EXCEPT ![p] = "ret"]
          /\ UNCHANGED walk
     ELSE LET w == IF IsOldWalk(cur[p].op)
                   THEN OldWalkStep(walk[p], cur[p], res[p])
                   ELSE WalkStep(walk[p], cur[p], res[p]) IN
          /\ walk' = [walk EXCEPT ![p] = w]
          /\ pc' = [pc EXCEPT ![p] = w.next]
  /\ UNCHANGED <<cur, res, pre, ret>>

\* What the operation returns to its caller.
Returned(c, r, w, before, after) ==
  IF w.phase = "none"
  THEN [NoRet EXCEPT !.call = c, !.err = r.err, !.value = r.value,
                     !.items = r.items, !.pre = before, !.post = after]
  ELSE [NoRet EXCEPT !.call = c, !.err = w.err,
                     !.names = SliceVals(w.heap, w.out),
                     !.pre = before, !.post = after]

Return(p) ==
  /\ pc[p] = "ret"
  /\ ret' = [ret EXCEPT ![p] =
               [Returned(cur[p], res[p], walk[p], pre[p], post[p])
                  EXCEPT !.seen = seen[p]]]
  /\ pc' = [pc EXCEPT ![p] = "idle"]
  /\ cur' = [cur EXCEPT ![p] = NoCall]
  /\ res' = [res EXCEPT ![p] = NoRes]
  /\ walk' = [walk EXCEPT ![p] = NoWalk]
  /\ pre' = [pre EXCEPT ![p] = EmptyStore]
  /\ post' = [post EXCEPT ![p] = EmptyStore]
  /\ seen' = [seen EXCEPT ![p] = {}]
  /\ UNCHANGED <<store, tx, txs, lastPut, lastAll>>

(***************************************************************************)
(* Inputs                                                                  *)
(***************************************************************************)

\* Longest item list given to InsertAll.
MaxItems == 2

\* Bucket names: a, b, a/a, a/b, a/b/a, a/b/b, a//b and the empty name.
NameInputs ==
  { <<"a">>, <<"b">>, <<"a", "/", "a">>, <<"a", "/", "b">>,
    <<"a", "/", "b", "/", "a">>, <<"a", "/", "b", "/", "b">>,
    <<"a", "/", "/", "b">>, <<>> }

\* Names of the buckets that key/value operations address: a and a/b.
KVNameInputs == { <<"a">>, <<"a", "/", "b">> }

\* Keys: k, b (also the name of a segment) and the empty key.
KeyInputs == { <<"k">>, <<"b">>, <<>> }

\* The pairs that Insert and InsertAll put: k with two values, b and the
\* empty key with one.
ItemInputs ==
  { Item(<<"k">>, <<"x">>), Item(<<"k">>, <<"y">>), Item(<<"b">>, <<"x">>),
    Item(<<>>, <<"x">>) }
ItemLists == UNION {[1..n -> ItemInputs \ {Item(<<"k">>, <<"y">>)}] : n \in 0..MaxItems}

\* Key b is only ever put into bucket a, where it collides with segment b
\* of a/b; InsertAll addresses bucket a.
CallInputs ==
       {BucketCall(op, n, DefaultSeparator) :
          op \in {"CreateBucket", "DeleteBucket"}, n \in NameInputs}
  \cup {InsertCall(n, DefaultSeparator, i.Key, i.Value) :
          n \in KVNameInputs, i \in ItemInputs \ {Item(<<"b">>, <<"x">>)}}
  \cup {InsertCall(<<"a">>, DefaultSeparator, <<"b">>, <<"x">>)}
  \cup {InsertAllCall(<<"a">>, DefaultSeparator, l) : l \in ItemLists}
  \cup {KeyCall(op, n, DefaultSeparator, k) :
          op \in {"Get", "Delete"}, n \in KVNameInputs, k \in KeyInputs}
  \cup {DBCall("DBGetAllBucketNames"), DBCall("DBGetRootBucketNames")}

(***************************************************************************)
(* One caller: operations run one after another                            *)
(***************************************************************************)

Next ==
  \/ \E c \in CallInputs : Call(1, c)
  \/ BeginTx(1)
  \/ RunTx(1)
  \/ EndTx(1)
  \/ Return(1)

Spec == Init /\ [][Next]_vars

(***************************************************************************)
(* One caller working on the entries of one bucket                         *)
(***************************************************************************)

\* Keys of bucket a: a, aa, ab and b.  aa is also the name of a bucket
\* nested in a, which sorts between the keys a and ab.
ScanKeys == { <<"a">>, <<"a", "a">>, <<"a", "b">>, <<"b">> }

\* Names: a, its nested bucket a/aa, and b, which is never created.
ScanNested == <<"a", "/", "a", "a">>
ScanNames == { <<"a">>, ScanNested, <<"b">> }

\* The pairs put: a with the values x and y, aa and ab with x, b with the
\* empty value.
ScanItems ==
  { Item(<<"a">>, <<"x">>), Item(<<"a">>, <<"y">>), Item(<<"a", "a">>, <<"x">>),
    Item(<<"a", "b">>, <<"x">>), Item(<<"b">>, <<>>) }

\* InsertAll lists over a and ab, where a comes with both values.
ScanItemLists ==
  UNION {[1..n -> {Item(<<"a">>, <<"x">>), Item(<<"a">>, <<"y">>),
                   Item(<<"a", "b">>, <<"x">>)}] : n \in 0..MaxItems}

\* Prefixes and range bounds: the keys, k (greater than all of them) and the
\* empty sequence.
ScanBounds == ScanKeys \cup {<<"k">>, <<>>}

ScanInputs ==
       {BucketCall("CreateBucket", n, DefaultSeparator) : n \in {<<"a">>, ScanNested}}
  \cup {BucketCall("DeleteBucket", <<"a">>, DefaultSeparator)}
  \cup {InsertCall(<<"a">>, DefaultSeparator, i.Key, i.Value) : i \in ScanItems}
  \cup {InsertAllCall(<<"a">>, DefaultSeparator, l) : l \in ScanItemLists}
  \cup {KeyCall(op, <<"a">>, DefaultSeparator, k) :
          op \in {"Get", "Delete"}, k \in ScanKeys}
  \cup {BucketCall("GetAll", n, DefaultSeparator) : n \in ScanNames}
  \cup {PrefixCall(<<"a">>, DefaultSeparator, x) : x \in ScanBounds}
  \cup {PrefixCall(<<"b">>, DefaultSeparator, <<"a">>)}
  \cup {RangeCall(<<"a">>, DefaultSeparator, min, max) :
          min \in ScanBounds, max \in ScanBounds}
  \cup {RangeCall(<<"b">>, DefaultSeparator, <<"a">>, <<"b">>)}

NextScan ==
  \/ \E c \in ScanInputs : Call(1, c)
  \/ BeginTx(1)
  \/ RunTx(1)
  \/ EndTx(1)
  \/ Return(1)

SpecScan == Init /\ [][NextScan]_vars

(***************************************************************************)
(* One caller whose handles all use a custom separator                     *)
(***************************************************************************)

CustomSeparator == <<":">>

\* Names split on the custom separator: a, b, a:b, a:b:a, a:b:b, and a/b and
\* a:a/b, whose segment a/b contains the default separator.
SepNames ==
  { <<"a">>, <<"b">>, <<"a", ":", "b">>,
    <<"a", ":", "b", ":", "a">>, <<"a", ":", "b", ":", "b">>,
    <<"a", "/", "b">>, <<"a", ":", "a", "/", "b">> }

SepInputs ==
       {BucketCall("CreateBucket", n, CustomSeparator) : n \in SepNames}
  \cup {BucketCall("DeleteBucket", n, CustomSeparator) : n \in {<<"a">>, <<"b">>}}
  \cup {InsertCall(<<"a", ":", "b">>, CustomSeparator, <<"k">>, <<"x">>)}
  \cup {DBSepCall(CustomSeparator)}

NextSep ==
  \/ \E c \in SepInputs : Call(1, c)
  \/ BeginTx(1)
  \/ RunTx(1)
  \/ EndTx(1)
  \/ Return(1)

SpecSep == Init /\ [][NextSep]_vars

(***************************************************************************)
(* One caller using the string variants                                    *)
(***************************************************************************)

\* Keys as strings: a, ab, aa (also the nested bucket a/aa) and the empty
\* string; values x and the empty string.
StringKeys ==
  { StringOf(<<"a">>), StringOf(<<"a", "b">>), StringOf(<<"a", "a">>), EmptyString }
StringValues == { StringOf(<<"x">>), EmptyString }

\* The pairs of the maps given to InsertAllString.
StringPairs ==
  { Item(StringOf(<<"a">>), StringOf(<<"y">>)),
    Item(StringOf(<<"a", "b">>), StringOf(<<"x">>)),
    Item(StringOf(<<"a", "a">>), StringOf(<<"x">>)),
    Item(EmptyString, StringOf(<<"x">>)) }

\* Every order in which the range over a map of at most MaxItems of these
\* pairs can yield them.
StringMapOrders ==
  UNION {{l \in [1..n -> StringPairs] :
            \A i, j \in 1..n : l[i].Key = l[j].Key => i = j} : n \in 0..MaxItems}

\* Prefixes and range bounds as strings: a, ab, k and the empty string.
StringBounds ==
  { StringOf(<<"a">>), StringOf(<<"a", "b">>), StringOf(<<"k">>), EmptyString }

StringInputs ==
       {BucketCall("CreateBucket", n, DefaultSeparator) : n \in {<<"a">>, ScanNested}}
  \cup {BucketCall("DeleteBucket", <<"a">>, DefaultSeparator)}
  \cup {InsertStringCall(<<"a">>, DefaultSeparator, k, v) :
          k \in StringKeys, v \in StringValues}
  \cup {InsertAllStringCall(<<"a">>, DefaultSeparator, l) : l \in StringMapOrders}
  \cup {KeyCall(op, <<"a">>, DefaultSeparator, k) :
          op \in {"GetString", "DeleteString"}, k \in StringKeys}
  \cup {KeyCall("GetString", <<"b">>, DefaultSeparator, StringOf(<<"a">>))}
  \cup {BucketCall("GetAllString", n, DefaultSeparator) : n \in {<<"a">>, <<"b">>}}
  \cup {PrefixStringCall(<<"a">>, DefaultSeparator, x) : x \in StringBounds}
  \cup {RangeStringCall(<<"a">>, DefaultSeparator, min, max) :
          min \in StringBounds, max \in StringBounds}

NextString ==
  \/ \E c \in StringInputs : Call(1, c)
  \/ BeginTx(1)
  \/ RunTx(1)
  \/ EndTx(1)
  \/ Return(1)

SpecString == Init /\ [][NextString]_vars

(***************************************************************************)
(* One caller walking the tree from Bucket handles                         *)
(***************************************************************************)

\* Unused capacity behind the Name of a handle the caller made: none, or
\* what []byte("a/b") leaves in an array of the smallest size class.
WalkSpares == {0, 5}

\* Buckets created below a: the siblings ab, b and bb, and a and b below a/b.
WalkNames ==
  { <<"a", "/", "a", "b">>, <<"a", "/", "b">>, <<"a", "/", "b", "b">>,
    <<"a", "/", "b", "/", "a">>, <<"a", "/", "b", "/", "b">> }

\* Handles the walks start from: a, a/b, and b, which is never created.
WalkHandles == { <<"a">>, <<"a", "/", "b">>, <<"b">> }

WalkInputs ==
       {BucketCall("CreateBucket", n, DefaultSeparator) : n \in WalkNames}
  \cup {BucketCall("DeleteBucket", <<"a">>, DefaultSeparator)}
  \cup {WalkCall(op, n, DefaultSeparator, sp) :
          op \in {"GetRootBucketNames", "GetAllBucketNames"},
          n \in WalkHandles, sp \in WalkSpares}
  \cup {DBCall("DBGetAllBucketNames")}

NextWalk ==
  \/ \E c \in WalkInputs : Call(1, c)
  \/ BeginTx(1)
  \/ RunTx(1)
  \/ EndTx(1)
  \/ Return(1)

SpecWalk == Init /\ [][NextWalk]_vars

(***************************************************************************)
(* Two callers: one reads and walks while the other writes                 *)
(***************************************************************************)

\* Buckets: aab with the children a and aab, and b below aab/a.
RaceRoot == <<"a", "a", "b">>
RaceChild == <<"a", "a", "b", "/", "a", "a", "b">>
RaceNested == <<"a", "a", "b", "/", "a", "/", "b">>

\* Caller 1 walks from the DB and from a handle on aab whose Name has spare
\* capacity.
ReaderInputs ==
  { DBCall("DBGetAllBucketNames"),
    WalkCall("GetAllBucketNames", RaceRoot, DefaultSeparator, 5) }

\* Caller 2 creates aab/a/b and aab/aab and deletes aab/aab.
WriterInputs ==
  { BucketCall("CreateBucket", RaceNested, DefaultSeparator),
    BucketCall("CreateBucket", RaceChild, DefaultSeparator),
    BucketCall("DeleteBucket", RaceChild, DefaultSeparator) }

RaceInputs(p) == IF p = 1 THEN ReaderInputs ELSE WriterInputs

NextRace ==
  \E p \in Callers :
    \/ \E c \in RaceInputs(p) : Call(p, c)
    \/ BeginTx(p)
    \/ RunTx(p)
    \/ EndTx(p)
    \/ Return(p)

SpecRace == Init /\ [][NextRace]_vars

(***************************************************************************)
(* Two callers: one reads while the other writes                           *)
(***************************************************************************)

\* InsertAll lists for bucket a: two new keys k and x; and k with another
\* value followed by an item whose empty key makes the call fail.
AtomicItems == <<Item(<<"k">>, <<"x">>), Item(<<"x">>, <<"x">>)>>
FailingItems == <<Item(<<"k">>, <<"y">>), Item(<<>>, <<"x">>)>>

\* CreateBucket names: a/b/a, which creates a/b and a/b/a together, and a/b/,
\* which fails on its empty last segment after a/b.
AtomicNested == <<"a", "/", "b", "/", "a">>
FailingNested == <<"a", "/", "b", "/">>

\* Caller 1 reads the pairs of a and walks from a; caller 2 inserts the
\* lists, creates the nested buckets and deletes a.
AtomicInputs(p) ==
  IF p = 1
  THEN { BucketCall("GetAll", <<"a">>, DefaultSeparator),
         WalkCall("GetAllBucketNames", <<"a">>, DefaultSeparator, 0) }
  ELSE { InsertAllCall(<<"a">>, DefaultSeparator, AtomicItems),
         InsertAllCall(<<"a">>, DefaultSeparator, FailingItems),
         BucketCall("CreateBucket", AtomicNested, DefaultSeparator),
         BucketCall("CreateBucket", FailingNested, DefaultSeparator),
         BucketCall("DeleteBucket", <<"a">>, DefaultSeparator) }

NextAtomic ==
  \E p \in Callers :
    \/ \E c \in AtomicInputs(p) : Call(p, c)
    \/ BeginTx(p)
    \/ RunTx(p)
    \/ EndTx(p)
    \/ Return(p)

SpecAtomic == Init /\ [][NextAtomic]_vars

(***************************************************************************)
(* Two callers that both write                                             *)
(***************************************************************************)

\* Each caller inserts and deletes key k of bucket a with a value of its
\* own, inserts a list, creates a/b/a and deletes a.
WritersInputs(p) ==
  { InsertCall(<<"a">>, DefaultSeparator, <<"k">>, IF p = 1 THEN <<"x">> ELSE <<"y">>),
    KeyCall("Delete", <<"a">>, DefaultSeparator, <<"k">>),
    InsertAllCall(<<"a">>, DefaultSeparator, IF p = 1 THEN AtomicItems ELSE FailingItems),
    BucketCall("CreateBucket", AtomicNested, DefaultSeparator),
    BucketCall("DeleteBucket", <<"a">>, DefaultSeparator) }

NextWriters ==
  \E p \in Callers :
    \/ \E c \in WritersInputs(p) : Call(p, c)
    \/ BeginTx(p)
    \/ RunTx(p)
    \/ EndTx(p)
    \/ Return(p)

SpecWriters == Init /\ [][NextWriters]_vars

(***************************************************************************)
(* Two callers: one only reads, the other writes                           *)
(***************************************************************************)

ReadOps ==
  {"Get", "GetAll", "GetPrefix", "GetRange", "GetString", "GetAllString",
   "GetPrefixString", "GetRangeString", "GetRootBucketNames",
   "GetAllBucketNames", "DBGetRootBucketNames", "DBGetAllBucketNames",
   "DBGetAllBucketNamesWithSeparator"}

\* Caller 1 uses every read operation on bucket a, and Get on b, which is
\* never created; caller 2 creates a/b, inserts k into a and deletes a.
ReadsInputs(p) ==
  IF p = 1
  THEN { KeyCall("Get", <<"a">>, DefaultSeparator, <<"k">>),
         KeyCall("Get", <<"b">>, DefaultSeparator, <<"k">>),
         BucketCall("GetAll", <<"a">>, DefaultSeparator),
         PrefixCall(<<"a">>, DefaultSeparator, <<"k">>),
         RangeCall(<<"a">>, DefaultSeparator, <<"a">>, <<"k">>),
         WalkCall("GetRootBucketNames", <<"a">>, DefaultSeparator, 0),
         WalkCall("GetAllBucketNames", <<"a">>, DefaultSeparator, 0),
         DBCall("DBGetRootBucketNames"),
         DBCall("DBGetAllBucketNames") }
  ELSE { BucketCall("CreateBucket", <<"a", "/", "b">>, DefaultSeparator),
         InsertCall(<<"a">>, DefaultSeparator, <<"k">>, <<"x">>),
         BucketCall("DeleteBucket", <<"a">>, DefaultSeparator) }

NextReads ==
  \E p \in Callers :
    \/ \E c \in ReadsInputs(p) : Call(p, c)
    \/ BeginTx(p)
    \/ RunTx(p)
    \/ EndTx(p)
    \/ Return(p)

SpecReads == Init /\ [][NextReads]_vars

(***************************************************************************)
(* One caller whose handles use any separator, the empty one included      *)
(***************************************************************************)

\* Separators: none, the default and a custom one.  Names: the empty name,
\* a, ab (two segments under the empty separator) and a/b.
SplitSeparators == { <<>>, DefaultSeparator, CustomSeparator }
SplitNames == { <<>>, <<"a">>, <<"a", "b">>, <<"a", "/", "b">> }

SplitInputs ==
       {BucketCall(op, n, sep) :
          op \in {"CreateBucket", "DeleteBucket"}, n \in SplitNames,
          sep \in SplitSeparators}
  \cup {KeyCall("Get", n, sep, <<"k">>) : n \in SplitNames, sep \in SplitSeparators}
  \cup {InsertCall(<<"a">>, DefaultSeparator, <<"k">>, <<"x">>)}

NextSplit ==
  \/ \E c \in SplitInputs : Call(1, c)
  \/ BeginTx(1)
  \/ RunTx(1)
  \/ EndTx(1)
  \/ Return(1)

SpecSplit == Init /\ [][NextSplit]_vars

(***************************************************************************)
(* One caller walking with the earlier implementation                      *)
(***************************************************************************)

\* The shape of the store of TestGetAllBucketNamesFromDB: a, a/b, a/b/a, b
\* and b/a.
OldNames ==
  { <<"a", "/", "b">>, <<"a", "/", "b", "/", "a">>, <<"b", "/", "a">> }

OldInputs ==
       {BucketCall("CreateBucket", n, DefaultSeparator) : n \in OldNames}
  \cup {BucketCall("DeleteBucket", <<"a">>, DefaultSeparator)}
  \cup {WalkCall("OldGetAllBucketNames", n, DefaultSeparator, sp) :
          n \in {<<"a">>, <<"b">>}, sp \in WalkSpares}
  \cup {DBCall("OldDBGetAllBucketNames")}

NextOld ==
  \/ \E c \in OldInputs : Call(1, c)
  \/ BeginTx(1)
  \/ RunTx(1)
  \/ EndTx(1)
  \/ Return(1)

SpecOld == Init /\ [][NextOld]_vars

(***************************************************************************)
(* Properties                                                              *)
(***************************************************************************)

\* The segments a call's handle addresses.
PathOf(c) == Split(c.name, c.sep)

\* The full name of a bucket path: its segments joined by the separator.
RECURSIVE JoinPath(_, _)
JoinPath(path, sep) ==
  IF Len(path) = 1 THEN path[1]
  ELSE path[1] \o sep \o JoinPath(Tail(path), sep)

\* Store s without the bucket at path and everything below it.
WithoutSubtree(s, path) ==
  [bk |-> {q \in s.bk : ~IsUnder(path, q)},
   kv |-> {t \in s.kv : ~IsUnder(path, t[1])}]

SeqToSet(q) == {q[i] : i \in 1..Len(q)}

\* C1: DeleteBucket on an existing path of two or more segments returns no
\* error and removes exactly the terminal bucket and its subtree.
C1_DeleteNestedBucket ==
  \A p \in Callers :
    LET r == ret[p] IN
    (r.call.op = "DeleteBucket" /\ Len(PathOf(r.call)) >= 2
       /\ PathOf(r.call) \in r.pre.bk)
    => (r.err = ErrNil /\ r.post = WithoutSubtree(r.pre, PathOf(r.call)))

\* C3: without concurrent mutation DB.GetAllBucketNames returns the full
\* names of all buckets of the store, each exactly once, and nothing else.
C3_DiscoveryComplete ==
  \A p \in Callers :
    LET r == ret[p] IN
    r.call.op = "DBGetAllBucketNames"
    => /\ r.err = ErrNil
       /\ SeqToSet(r.names) = {JoinPath(q, DefaultSeparator) : q \in r.pre.bk}
       /\ Len(r.names) = Cardinality(r.pre.bk)

\* C4: DeleteBucket on a single-segment path of an existing top-level bucket
\* removes it with all its descendants, and DB.GetAllBucketNames on a store
\* without buckets returns the empty list.
C4_DeleteTopLevelCascades ==
  \A p \in Callers :
    LET r == ret[p] IN
    /\ (r.call.op = "DeleteBucket" /\ Len(PathOf(r.call)) = 1
          /\ PathOf(r.call) \in r.pre.bk)
       => /\ r.err = ErrNil
          /\ r.post = WithoutSubtree(r.pre, PathOf(r.call))
          /\ \A q \in r.post.bk : q[1] # PathOf(r.call)[1]
    /\ (r.call.op = "DBGetAllBucketNames" /\ r.pre.bk = {})
       => (r.err = ErrNil /\ r.names = <<>>)

\* C4 witness: the only top-level bucket, holding a/b/a, was deleted.
C4_Witness ==
  LET r == ret[1] IN
  /\ r.call.op = "DeleteBucket" /\ r.call.name = <<"a">>
  /\ <<<<"a">>, <<"b">>, <<"a">>>> \in r.pre.bk
  /\ \A q \in r.pre.bk : q[1] = <<"a">>
  /\ r.err = ErrNil /\ r.post.bk = {}

\* C2: a successful Insert(key, value) followed by Get(key) through a handle
\* with the same name and separator returns the inserted value and no error,
\* as long as no commit in between changed the entry.
C2_RoundTrip ==
  \A p \in Callers :
    LET r == ret[p] IN
    (r.call.op = "Get" /\ lastPut.valid /\ r.call.name = lastPut.name
       /\ r.call.sep = lastPut.sep /\ r.call.key = lastPut.key)
    => (r.err = ErrNil /\ r.value = lastPut.value)

\* C2 witness: Get returned the value y last inserted for k in a/b, in a
\* store where bucket a holds a key k of its own.
C2_Witness ==
  LET r == ret[1] IN
  /\ r.call.op = "Get" /\ r.call.name = <<"a", "/", "b">> /\ r.call.key = <<"k">>
  /\ lastPut.valid /\ lastPut.name = r.call.name /\ lastPut.key = r.call.key
  /\ lastPut.value = <<"y">> /\ r.value = <<"y">> /\ r.err = ErrNil
  /\ HasKey(r.pre, <<<<"a">>>>, <<"k">>)

\* The prefixes of a path.
Prefixes(path) == {SubSeq(path, 1, i) : i \in 1..Len(path)}
IsPrefixOf(m, n) == Len(m) <= Len(n) /\ SubSeq(n, 1, Len(m)) = m

\* Path equivalence for the write-mode operations in ops: after a successful
\* one every prefix of its path resolves in read mode, and the store that
\* results from creating a chain does not depend on the calls that created
\* it: CreateBucket(n) adds exactly the missing prefixes of n, so creating a
\* prefix before or after n gives the same store as creating n alone (the
\* latter evaluated on the committed store whenever no operation is in
\* progress).
PathEquivalence(ops) ==
  /\ \A p \in Callers :
       LET r == ret[p]
           path == PathOf(r.call) IN
       /\ (r.call.op \in ops /\ r.err = ErrNil)
          => \A q \in Prefixes(path) :
               ViewResolve(r.post, JoinPath(q, r.call.sep), r.call.sep).err = ErrNil
       /\ (r.call.op = "CreateBucket" /\ r.err = ErrNil)
          => r.post = [r.pre EXCEPT !.bk = @ \cup Prefixes(path)]
  /\ \A n \in NameInputs :
       LET alone == CreateBucketTx(store, n, DefaultSeparator) IN
       ((\A p \in Callers : pc[p] = "idle") /\ alone.err = ErrNil)
       => \A q \in Prefixes(Split(n, DefaultSeparator)) :
            LET m      == JoinPath(q, DefaultSeparator)
                first  == CreateBucketTx(store, m, DefaultSeparator)
                before == CreateBucketTx(first.store, n, DefaultSeparator)
                after  == CreateBucketTx(alone.store, m, DefaultSeparator)
            IN  /\ first.err = ErrNil /\ before.err = ErrNil /\ after.err = ErrNil
                /\ before.store = alone.store
                /\ after.store = alone.store

\* C5 as stated: path equivalence after every successful write-mode
\* operation, DeleteBucket included.
C5_AsStated == PathEquivalence(WriteOps)

\* C5, amended: path equivalence after every successful write-mode operation
\* that resolves its path through Bucket.Update (CreateBucket, Insert,
\* InsertAll, Delete); a successful DeleteBucket removes the terminal bucket
\* of its path, which then no longer resolves.
C5_PathEquivalence == PathEquivalence(WriteOps \ {"DeleteBucket"})

\* C5 witness: CreateBucket(a/b) created both a and a/b in one call.
C5_Witness ==
  LET r == ret[1] IN
  /\ r.call.op = "CreateBucket" /\ r.call.name = <<"a", "/", "b">>
  /\ r.err = ErrNil
  /\ <<<<"a">>>> \notin r.pre.bk
  /\ {<<<<"a">>>>, <<<<"a">>, <<"b">>>>} \subseteq r.post.bk

\* C6: a write-mode operation that fails, while resolving its path or in its
\* body, leaves the store as it was before the call.
C6_FailedWriteLeavesStore ==
  \A p \in Callers :
    LET r == ret[p] IN
    (r.call.op \in WriteOps /\ r.err # ErrNil) => r.post = r.pre

\* C6 witness: CreateBucket(a//b) failed on the empty segment after segment
\* a, which did not exist before, had been created in the transaction.
C6_Witness ==
  LET r == ret[1] IN
  /\ r.call.op = "CreateBucket" /\ r.call.name = <<"a", "/", "/", "b">>
  /\ r.err.kind = "ErrBucketNameRequired"
  /\ <<<<"a">>>> \notin r.pre.bk
  /\ <<<<"a">>>> \notin r.post.bk

\* C7: when the put of an item fails (empty key, or a key that names a nested
\* bucket), InsertAll returns an error and no item of the call is visible
\* afterwards, the ones before the failing item included.
C7_InsertAllAllOrNothing ==
  \A p \in Callers :
    LET r == ret[p]
        path == PathOf(r.call)
        items == r.call.items
        failing == \E i \in 1..Len(items) :
                     \/ items[i].Key = <<>>
                     \/ Append(path, items[i].Key) \in r.pre.bk
    IN  (r.call.op = "InsertAll" /\ failing)
        => /\ r.err # ErrNil
           /\ r.post.bk = r.pre.bk
           /\ \A i \in 1..Len(items) :
                BoltGet(r.post, path, items[i].Key) = BoltGet(r.pre, path, items[i].Key)

\* C7 witness: InsertAll of (k, x) and then an item with an empty key failed,
\* and k, absent before, is absent afterwards.
C7_Witness ==
  LET r == ret[1] IN
  /\ r.call.op = "InsertAll" /\ r.call.name = <<"a">>
  /\ r.call.items = <<Item(<<"k">>, <<"x">>), Item(<<>>, <<"x">>)>>
  /\ r.err.kind = "ErrKeyRequired"
  /\ <<<<"a">>>> \in r.pre.bk
  /\ ~HasKey(r.pre, <<<<"a">>>>, <<"k">>)
  /\ ~HasKey(r.post, <<<<"a">>>>, <<"k">>)

\* C8: a caller has a transaction open only between the opening and the end
\* of that transaction; whenever it is idle, about to open a transaction or
\* about to return, it has none.
C8_NoTransactionLeftOpen ==
  \A p \in Callers : pc[p] \in {"idle", "begin", "ret"} => tx[p] = "none"

\* C8 witness: a write operation has returned an error and its caller is
\* idle with no open transaction.
C8_Witness ==
  /\ pc[1] = "idle" /\ tx[1] = "none"
  /\ ret[1].call.op \in WriteOps /\ ret[1].err # ErrNil

\* C9: read-mode resolution of a path with an absent segment fails with
\* 'Bucket not found' naming the full requested name; the body does not run
\* (no value, no 'Key not found') and nothing is created.
C9_ReadOfAbsentPath ==
  \A p \in Callers :
    LET r == ret[p] IN
    (r.call.op = "Get" /\ PathOf(r.call) \notin r.pre.bk)
    => /\ r.err = Err("Bucket not found", r.call.name)
       /\ r.value = <<>>
       /\ r.post = r.pre

\* C9 witness: Get through a/b failed where a exists and a/b does not.
C9_Witness ==
  LET r == ret[1] IN
  /\ r.call.op = "Get" /\ r.call.name = <<"a", "/", "b">>
  /\ <<<<"a">>>> \in r.pre.bk
  /\ <<<<"a">>, <<"b">>>> \notin r.pre.bk
  /\ r.err = Err("Bucket not found", <<"a", "/", "b">>)

\* C10: Get on a key that the existing terminal bucket does not hold fails
\* with 'Key not found' naming the key; Get returns a nil error only
\* together with the value the bucket holds for the key.
C10_GetAbsentKey ==
  \A p \in Callers :
    LET r == ret[p]
        path == PathOf(r.call) IN
    (r.call.op = "Get" /\ path \in r.pre.bk)
    => /\ ~HasKey(r.pre, path, r.call.key)
            => (r.err = Err("Key not found", r.call.key) /\ r.value = <<>>)
       /\ r.err = ErrNil
            => (HasKey(r.pre, path, r.call.key)
                /\ r.value = ValueOf(r.pre, path, r.call.key))

\* C10 witness: Get of key k failed on bucket a, which exists and holds
\* another key.
C10_Witness ==
  LET r == ret[1] IN
  /\ r.call.op = "Get" /\ r.call.name = <<"a">> /\ r.call.key = <<"k">>
  /\ HasKey(r.pre, <<<<"a">>>>, <<"b">>)
  /\ r.err = Err("Key not found", <<"k">>)

\* The plain key/value pairs of the bucket at path.
PlainPairs(s, path) == {Item(t[2], t[3]) : t \in {u \in s.kv : u[1] = path}}

\* No element occurs twice in the sequence.
NoDuplicates(q) == \A i, j \in 1..Len(q) : q[i] = q[j] => i = j

\* C11: GetPrefix with a non-empty prefix on an existing bucket returns no
\* error and exactly the plain pairs of the bucket whose key has the prefix,
\* each once with its stored value; no other key and no nested bucket.
C11_GetPrefixExact ==
  \A p \in Callers :
    LET r == ret[p]
        path == PathOf(r.call) IN
    (r.call.op = "GetPrefix" /\ r.call.prefix # <<>> /\ path \in r.pre.bk)
    => /\ r.err = ErrNil
       /\ SeqToSet(r.items)
            = {i \in PlainPairs(r.pre, path) : HasPrefix(i.Key, r.call.prefix)}
       /\ NoDuplicates(r.items)

\* C11 witness: GetPrefix(a) on bucket a returned the keys a and ab while the
\* nested bucket aa sorts between them and the key b does not match.
C11_Witness ==
  LET r == ret[1] IN
  /\ r.call.op = "GetPrefix" /\ r.call.name = <<"a">> /\ r.call.prefix = <<"a">>
  /\ <<<<"a">>, <<"a", "a">>>> \in r.pre.bk
  /\ HasKey(r.pre, <<<<"a">>>>, <<"b">>)
  /\ r.err = ErrNil
  /\ r.items = <<Item(<<"a">>, <<"x">>), Item(<<"a", "b">>, <<"x">>)>>

\* C12: GetRange(min, max) on an existing bucket returns no error and exactly
\* the plain pairs with min <= key <= max in byte order, each once (none when
\* min > max or no key lies in the range); never a nested bucket.
C12_GetRangeInclusive ==
  \A p \in Callers :
    LET r == ret[p]
        path == PathOf(r.call) IN
    (r.call.op = "GetRange" /\ path \in r.pre.bk)
    => /\ r.err = ErrNil
       /\ SeqToSet(r.items)
            = {i \in PlainPairs(r.pre, path) :
                 BytesLeq(r.call.min, i.Key) /\ BytesLeq(i.Key, r.call.max)}
       /\ NoDuplicates(r.items)
       /\ ~BytesLeq(r.call.min, r.call.max) => r.items = <<>>

\* C12 witness: GetRange(a, ab) returned the keys a and ab, both bounds
\* included, and neither the nested bucket aa between them nor the key b.
C12_Witness ==
  LET r == ret[1] IN
  /\ r.call.op = "GetRange" /\ r.call.name = <<"a">>
  /\ r.call.min = <<"a">> /\ r.call.max = <<"a", "b">>
  /\ <<<<"a">>, <<"a", "a">>>> \in r.pre.bk
  /\ HasKey(r.pre, <<<<"a">>>>, <<"b">>)
  /\ r.err = ErrNil
  /\ r.items = <<Item(<<"a">>, <<"y">>), Item(<<"a", "b">>, <<"x">>)>>

\* One pair per distinct key of the list, with the value of its last
\* occurrence.
LastValues(items) ==
  {items[i] : i \in {j \in 1..Len(items) :
                       \A k \in (j + 1)..Len(items) : items[k].Key # items[j].Key}}

\* C13: GetAll on an existing bucket returns no error and exactly the plain
\* pairs of the bucket, each once and never a nested bucket; after an
\* InsertAll that created the bucket these are one pair per distinct key of
\* the list, with the value put last.
C13_GetAllExact ==
  \A p \in Callers :
    LET r == ret[p]
        path == PathOf(r.call) IN
    (r.call.op = "GetAll" /\ path \in r.pre.bk)
    => /\ r.err = ErrNil
       /\ SeqToSet(r.items) = PlainPairs(r.pre, path)
       /\ NoDuplicates(r.items)
       /\ (lastAll.valid /\ lastAll.name = r.call.name /\ lastAll.sep = r.call.sep)
          => SeqToSet(r.items) = LastValues(lastAll.items)

\* C13 witness: after InsertAll of (a, x), (a, y) created bucket a, GetAll
\* returned the single pair (a, y).
C13_Witness ==
  LET r == ret[1] IN
  /\ r.call.op = "GetAll" /\ r.call.name = <<"a">>
  /\ lastAll.valid /\ lastAll.name = <<"a">>
  /\ lastAll.items = <<Item(<<"a">>, <<"x">>), Item(<<"a">>, <<"y">>)>>
  /\ r.err = ErrNil
  /\ r.items = <<Item(<<"a">>, <<"y">>)>>

\* C14: Delete of a key that holds a plain value in the existing terminal
\* bucket returns no error and removes exactly that pair: Get of the key then
\* fails with 'Key not found', and all buckets and all other pairs stay.
C14_DeleteRemovesExactlyKey ==
  \A p \in Callers :
    LET r == ret[p]
        path == PathOf(r.call)
        key == r.call.key IN
    (r.call.op = "Delete" /\ path \in r.pre.bk /\ HasKey(r.pre, path, key))
    => /\ r.err = ErrNil
       /\ r.post.bk = r.pre.bk
       /\ r.post.kv = r.pre.kv \ {<<path, key, ValueOf(r.pre, path, key)>>}
       /\ GetTx(r.post, r.call.name, r.call.sep, key).err = Err("Key not found", key)

\* C14 witness: Delete removed key a from bucket a, which also holds the
\* keys ab and b and the nested bucket aa, all still there afterwards.
C14_Witness ==
  LET r == ret[1] IN
  /\ r.call.op = "Delete" /\ r.call.name = <<"a">> /\ r.call.key = <<"a">>
  /\ HasKey(r.pre, <<<<"a">>>>, <<"a">>)
  /\ HasKey(r.post, <<<<"a">>>>, <<"a", "b">>)
  /\ HasKey(r.post, <<<<"a">>>>, <<"b">>)
  /\ <<<<"a">>, <<"a", "a">>>> \in r.post.bk
  /\ ~HasKey(r.post, <<<<"a">>>>, <<"a">>)
  /\ r.err = ErrNil

\* C15: Delete of a key that the existing terminal bucket holds neither as a
\* plain key nor as a nested bucket returns no error and leaves the store
\* unchanged; and a second Delete after a successful one returns no error
\* and changes nothing.
C15_DeleteAbsentKey ==
  \A p \in Callers :
    LET r == ret[p]
        path == PathOf(r.call)
        key == r.call.key
        again == DeleteTx(r.post, r.call.name, r.call.sep, key) IN
    /\ (r.call.op = "Delete" /\ path \in r.pre.bk
          /\ key \notin PlainKeys(r.pre, path) \cup ChildNames(r.pre, path))
       => (r.err = ErrNil /\ r.post = r.pre)
    /\ (r.call.op = "Delete" /\ r.err = ErrNil)
       => (again.err = ErrNil /\ again.store = r.post)

C17_InsertOverwrites ==
  \A p \in Callers :
    LET r == ret[p]
        path == PathOf(r.call)
        key == r.call.key IN
    /\ (r.call.op = "Insert" /\ path \in r.pre.bk /\ HasKey(r.pre, path, key))
       => /\ r.err = ErrNil
          /\ r.post.bk = r.pre.bk
          /\ r.post.kv = (r.pre.kv \ {<<path, key, ValueOf(r.pre, path, key)>>})
                            \cup {<<path, key, r.call.value>>}
    /\ (lastPut.valid /\ lastPut.old.found
          /\ r.call.name = lastPut.name /\ r.call.sep = lastPut.sep)
       => /\ (r.call.op = "Get" /\ key = lastPut.key)
             => (r.err = ErrNil /\ r.value = lastPut.value)
          /\ r.call.op = "GetAll"
             => /\ r.err = ErrNil
                /\ Cardinality({i \in 1..Len(r.items) :
                                  r.items[i].Key = lastPut.key}) = 1
                /\ Item(lastPut.key, lastPut.value) \in SeqToSet(r.items)

\* C17 witness: key a held x, Insert put y, and GetAll then returned the
\* pair (a, y) and no other pair for a.
C17_Witness ==
  LET r == ret[1] IN
  /\ r.call.op = "GetAll" /\ r.call.name = <<"a">>
  /\ lastPut.valid /\ lastPut.name = <<"a">> /\ lastPut.key = <<"a">>
  /\ lastPut.old = [found |-> TRUE, value |-> <<"x">>]
  /\ lastPut.value = <<"y">>
  /\ r.items = <<Item(<<"a">>, <<"y">>)>>

\* C18: on a store built only through handles with the custom separator,
\* DB.GetAllBucketNamesWithSeparator returns no error and exactly the paths
\* of the buckets of the store, each joined with that separator.
C18_CustomSeparatorDiscovery ==
  \A p \in Callers :
    LET r == ret[p] IN
    r.call.op = "DBGetAllBucketNamesWithSeparator"
    => /\ r.err = ErrNil
       /\ SeqToSet(r.names) = {JoinPath(q, r.call.sep) : q \in r.pre.bk}

\* C19: DB.GetRootBucketNames returns no error and exactly the names of the
\* top-level buckets of the store, each once; no nested bucket and no key.
C19_RootNamesExact ==
  \A p \in Callers :
    LET r == ret[p] IN
    r.call.op = "DBGetRootBucketNames"
    => /\ r.err = ErrNil
       /\ SeqToSet(r.names) = {q[1] : q \in {t \in r.pre.bk : Len(t) = 1}}
       /\ NoDuplicates(r.names)

\* C19 witness: the store holds a, b, the nested a/a and a/b/a and key k in
\* a; the names returned are a and b.
C19_Witness ==
  LET r == ret[1] IN
  /\ r.call.op = "DBGetRootBucketNames"
  /\ {<<<<"a">>, <<"a">>>>, <<<<"a">>, <<"b">>, <<"a">>>>, <<<<"b">>>>} \subseteq r.pre.bk
  /\ HasKey(r.pre, <<<<"a">>>>, <<"k">>)
  /\ r.err = ErrNil
  /\ r.names = << <<"a">>, <<"b">> >>

\* Conversion of a pair between its byte and its string form.
ByteItem(i) == Item(BytesOf(i.Key), BytesOf(i.Value))
StringItem(i) == Item(StringOf(i.Key), StringOf(i.Value))

\* The orders in which the elements of a sequence without duplicates can be
\* listed.
Orders(q) == {l \in [1..Len(q) -> SeqToSet(q)] : SeqToSet(l) = SeqToSet(q)}

\* C20: every string variant changes the store as its byte variant does on
\* the converted arguments, returns an error in the same cases, returns the
\* converted value or the same set of pairs, and fails to return in the same
\* cases; for InsertAllString this holds for every order of the pairs of
\* the map.
C20_StringVariantsEquivalent ==
  \A p \in Callers :
    LET r == ret[p]
        c == r.call
        SameWrite(b) ==
          /\ (r.err = ErrNil) = (b.err = ErrNil)
          /\ r.post = Committed("write", b.err, r.pre, b.store)
        SamePairs(b) ==
          /\ b.err # Diverges
          /\ r.err = b.err
          /\ r.items = {StringItem(i) : i \in SeqToSet(b.items)}
          /\ r.post = r.pre
    IN
    /\ c.op = "InsertString"
       => /\ SameWrite(InsertTx(r.pre, c.name, c.sep, BytesOf(c.key), BytesOf(c.value)))
          /\ r.err = InsertTx(r.pre, c.name, c.sep, BytesOf(c.key), BytesOf(c.value)).err
    /\ c.op = "DeleteString"
       => /\ SameWrite(DeleteTx(r.pre, c.name, c.sep, BytesOf(c.key)))
          /\ r.err = DeleteTx(r.pre, c.name, c.sep, BytesOf(c.key)).err
    /\ c.op = "InsertAllString"
       => \A l \in Orders(c.items) :
            SameWrite(InsertAllTx(r.pre, c.name, c.sep,
                                  [i \in 1..Len(l) |-> ByteItem(l[i])]))
    /\ c.op = "GetString"
       => LET b == GetTx(r.pre, c.name, c.sep, BytesOf(c.key))
          IN  r.err = b.err /\ BytesOf(r.value) = b.value /\ r.post = r.pre
    /\ c.op = "GetAllString" => SamePairs(GetAllTx(r.pre, c.name, c.sep))
    /\ c.op = "GetPrefixString"
       => SamePairs(GetPrefixTx(r.pre, c.name, c.sep, BytesOf(c.prefix)))
    /\ c.op = "GetRangeString"
       => SamePairs(GetRangeTx(r.pre, c.name, c.sep, BytesOf(c.min), BytesOf(c.max)))
    /\ (pc[p] = "spin" /\ cur[p].op = "GetPrefixString")
       => GetPrefixTx(txs[p], cur[p].name, cur[p].sep,
                      BytesOf(cur[p].prefix)).err = Diverges

\* C20 witness: InsertAllString of a map with the pairs (ab, x) and (aa, x)
\* failed on bucket a, where aa is a nested bucket, and ab, yielded first and
\* absent before, is absent afterwards.
C20_Witness ==
  LET r == ret[1] IN
  /\ r.call.op = "InsertAllString" /\ r.call.name = <<"a">>
  /\ r.call.items = << Item(StringOf(<<"a", "b">>), StringOf(<<"x">>)),
                       Item(StringOf(<<"a", "a">>), StringOf(<<"x">>)) >>
  /\ <<<<"a">>, <<"a", "a">>>> \in r.pre.bk
  /\ ~HasKey(r.pre, <<<<"a">>>>, <<"a", "b">>)
  /\ r.err.kind = "ErrIncompatibleValue"
  /\ r.post = r.pre

\* C21: DeleteBucket removes no bucket other than the terminal bucket of its
\* path and the buckets below it: every bucket path that is neither the path
\* nor below it exists after the call exactly if it existed before.
C21_DeleteBucketFrame ==
  \A p \in Callers :
    LET r == ret[p]
        path == PathOf(r.call)
    IN  r.call.op = "DeleteBucket"
        => \A q \in r.pre.bk \cup r.post.bk :
             ~IsUnder(path, q) => (q \in r.post.bk <=> q \in r.pre.bk)

\* C23: GetPrefix returns for every bucket and every prefix, the empty one
\* included: no caller is ever inside a prefix scan that does not return.
C23_PrefixScanReturns ==
  \A p \in Callers :
    cur[p].op \in {"GetPrefix", "GetPrefixString"} => pc[p] # "spin"

\* The full name a child gets: the parent's name, the separator, the child.
ChildName(parent, sep, child) == parent \o sep \o child

\* C22: the full names that Bucket.GetRootBucketNames builds for the children
\* of a bucket are independent values: whenever the names of a bucket's
\* children have been read, building them gives, child by child, the
\* handle's Name, the separator and the child's name, whether the Name was
\* made by the caller or returned by an earlier GetRootBucketNames; and
\* GetRootBucketNames returns these names.
C22_NamesIndependent ==
  \A p \in Callers :
    LET w == walk[p]
        sep == WalkSep(cur[p])
        kids == res[p].names
        b == BuildNames(w.heap, w.handle, sep, kids, 1)
        r == ret[p]
        children == BucketRootNamesTx(r.pre, r.call.name, r.call.sep).names
    IN  /\ (pc[p] = "end" /\ w.phase \in {"broots", "expand"} /\ res[p].err = ErrNil)
           => SliceVals(b.heap, b.slices)
                = [i \in 1..Len(kids) |->
                     ChildName(SliceVal(w.heap, w.handle), sep, kids[i])]
        /\ (r.call.op = "GetRootBucketNames" /\ r.err = ErrNil)
           => r.names = [i \in 1..Len(children) |->
                           ChildName(r.call.name, r.call.sep, children[i])]

\* The number of segments of a full name, and the name of its parent.
Depth(name, sep) == Len(Split(name, sep))
ParentName(name, sep) ==
  LET path == Split(name, sep)
  IN  JoinPath(SubSeq(path, 1, Len(path) - 1), sep)
LastSegment(name, sep) == LET path == Split(name, sep) IN path[Len(path)]

\* How often x occurs in the sequence q.
Count(q, x) == Cardinality({i \in 1..Len(q) : q[i] = x})

\* C29: while no other caller has called any operation,
\* Bucket.GetAllBucketNames and
\* DB.GetAllBucketNames return after finitely many lookups, never more than
\* one per bucket of the store and one for the starting handle, and a walk
\* that starts at an existing bucket (or at the DB) returns no error after
\* resolving every bucket below its starting point exactly once and no other
\* name but the starting handle's.
C29_WalkExpandsEachOnce ==
  \A p \in Callers :
    LET c == cur[p]
        w == walk[p]
        db == c.op = "DBGetAllBucketNames"
        start == IF db THEN <<>> ELSE PathOf(c)
        below == {q \in pre[p].bk : IsUnder(start, q) /\ q # start}
        names == {JoinPath(q, WalkSep(c)) : q \in below}
        own == IF db THEN {} ELSE {c.name}
    IN  (c.op \in {"GetAllBucketNames", "DBGetAllBucketNames"}
           /\ \A q \in Callers \ {p} : pc[q] = "idle" /\ ret[q] = NoRet)
        => /\ Len(w.looked) <= Cardinality(pre[p].bk) + 1
           /\ (pc[p] = "ret" /\ (db \/ start \in pre[p].bk))
              => /\ w.err = ErrNil
                 /\ \A n \in names : Count(w.looked, n) = 1
                 /\ SeqToSet(w.looked) \subseteq names \cup own

\* C30: the names Bucket.GetAllBucketNames returns are in breadth-first
\* order: a name comes after the name of its parent when that is in the
\* result, no name comes before a name with fewer segments, and names with
\* the same parent come in the key order in which the engine iterates the
\* parent's children.
C30_BreadthFirstOrder ==
  \A p \in Callers :
    LET r == ret[p]
        sep == r.call.sep
        N == r.names
    IN  (r.call.op = "GetAllBucketNames" /\ r.err = ErrNil)
        => \A i, j \in 1..Len(N) :
             /\ i < j => Depth(N[i], sep) <= Depth(N[j], sep)
             /\ (Depth(N[j], sep) > 1 /\ N[i] = ParentName(N[j], sep)) => i < j
             /\ (i < j /\ Depth(N[i], sep) > 1
                   /\ ParentName(N[i], sep) = ParentName(N[j], sep))
                => BytesLeq(LastSegment(N[i], sep), LastSegment(N[j], sep))

FullWalks == {"GetAllBucketNames", "DBGetAllBucketNames", "DBGetAllBucketNamesWithSeparator"}

\* C24: the discovery walk surfaces races: when the bucket a queued name
\* stood for when it was queued no longer exists in the transaction that
\* expands it, that lookup fails, and a walk whose last lookup failed returns
\* that 'Bucket not found' error, never nil.
C24_RaceSurfaced ==
  \A p \in Callers :
    LET w == walk[p]
        sep == WalkSep(cur[p])
    IN  cur[p].op \in FullWalks
        => /\ (pc[p] = "end" /\ w.phase = "expand" /\ Split(w.hv, sep) \notin txs[p].bk)
              => res[p].err.kind = "Bucket not found"
           /\ (pc[p] = "ret" /\ res[p].err # ErrNil)
              => (w.err = res[p].err /\ w.err.kind = "Bucket not found")

\* C25: when a full walk returns an error, the list it returns with it holds
\* every name the walk had accumulated: for DB.GetAllBucketNames the names in
\* its own list and those in the list of the Bucket.GetAllBucketNames call
\* that failed.
C25_PartialResultKept ==
  \A p \in Callers :
    LET w == walk[p] IN
    (cur[p].op \in FullWalks /\ pc[p] = "ret" /\ w.err # ErrNil)
    => SeqToSet(SliceVals(w.heap, w.acc \o w.sub))
         \subseteq SeqToSet(SliceVals(w.heap, w.out))

\* C26: every name a full walk returns, with or without an error, is the full
\* name of a bucket that existed at some moment between the call and the
\* return, and no name is returned twice.
C26_NamesExistedOnce ==
  \A p \in Callers :
    LET r == ret[p] IN
    r.call.op \in FullWalks
    => /\ \A i \in 1..Len(r.names) : Split(r.names[i], WalkSep(r.call)) \in r.seen
       /\ NoDuplicates(r.names)

\* A view of the store in which no write is partially applied: bucket a holds
\* all pairs of AtomicItems or none, its keys k and x hold no other value,
\* and a/b exists exactly if a/b/a does.
AtomicView(v) ==
  LET pairs == PlainPairs(v, <<<<"a">>>>)
      have  == {i \in 1..Len(AtomicItems) : AtomicItems[i] \in pairs}
  IN  /\ have = {} \/ have = 1..Len(AtomicItems)
      /\ \A it \in pairs :
           (\E i \in 1..Len(AtomicItems) : AtomicItems[i].Key = it.Key)
           => it \in SeqToSet(AtomicItems)
      /\ (<<<<"a">>, <<"b">>>> \in v.bk) <=> (Split(AtomicNested, DefaultSeparator) \in v.bk)

\* C27: a reader never observes a partially applied write: every read
\* transaction sees bucket a with all pairs of an InsertAll or none of them
\* and with all buckets a CreateBucket added or none of them; so GetAll
\* returns all of the pairs or none, and a step of the walk that lists the
\* children of a/b finds a/b/a.
C27_ReadsSeeWholeWrites ==
  \A p \in Callers :
    LET r == ret[p] IN
    /\ tx[p] = "read" => AtomicView(txs[p])
    /\ (r.call.op = "GetAll" /\ r.err = ErrNil)
       => (r.items = <<>> \/ r.items = AtomicItems)
    /\ (pc[p] = "end" /\ cur[p].op = "GetAllBucketNames" /\ res[p].err = ErrNil
          /\ walk[p].hv = <<"a", "/", "b">>)
       => res[p].names = <<<<"a">>>>

\* C27 witness: caller 1 has read bucket a in a transaction that saw none of
\* the pairs, while the write transaction of caller 2 holds, not yet
\* committed, the first pair of an InsertAll that failed on its second.
C27_Witness ==
  /\ pc[1] = "end" /\ tx[1] = "read" /\ cur[1].op = "GetAll"
  /\ res[1].err = ErrNil /\ res[1].items = <<>>
  /\ pc[2] = "end" /\ tx[2] = "write" /\ cur[2].op = "InsertAll"
  /\ cur[2].items = FailingItems
  /\ HasKey(txs[2], <<<<"a">>>>, <<"k">>)
  /\ ~HasKey(store, <<<<"a">>>>, <<"k">>)

\* C28: at most one write transaction is open at any time, and what an open
\* write transaction is about to commit is what its operation gives when run
\* on the committed store as it is now: the commits are the operations run
\* one after another.
C28_WritesSerialised ==
  /\ Cardinality({p \in Callers : tx[p] = "write"}) <= 1
  /\ \A p \in Callers :
       (tx[p] = "write" /\ pc[p] = "end")
       => LET o == TxFn(store, cur[p], walk[p])
          IN  txs[p] = o.store /\ res[p].err = o.err

\* C28 witness: caller 1 called Insert, caller 2 then committed a change, and
\* the write transaction of caller 1 is about to commit while caller 2 waits
\* to open one.
C28_Witness ==
  /\ pc[1] = "end" /\ tx[1] = "write" /\ cur[1].op = "Insert"
  /\ pre[1] # store /\ txs[1] # store
  /\ pc[2] = "begin" /\ cur[2].op \in WriteOps

\* The bucket paths strictly below path in store s.
ProperDescendants(s, path) == {q \in s.bk : IsUnder(path, q) /\ q # path}

\* C31: Bucket.GetAllBucketNames through a handle for an existing path, with
\* no other caller active, returns no error and exactly the full names of
\* the buckets strictly below the path, each once: never the path itself, a
\* bucket outside its subtree or a plain key, and every name starts with the
\* handle's name followed by the separator.
C31_DescendantsExact ==
  \A p \in Callers :
    LET r == ret[p]
        path == PathOf(r.call)
        below == ProperDescendants(r.pre, path)
    IN  (r.call.op = "GetAllBucketNames" /\ path \in r.pre.bk
           /\ \A q \in Callers \ {p} : pc[q] = "idle" /\ ret[q] = NoRet)
        => /\ r.err = ErrNil
           /\ SeqToSet(r.names) = {JoinPath(q, r.call.sep) : q \in below}
           /\ Len(r.names) = Cardinality(below)
           /\ \A i \in 1..Len(r.names) :
                HasPrefix(r.names[i], r.call.name \o r.call.sep)

\* C32: Bucket.GetRootBucketNames through a handle for an existing path
\* returns no error and one name per nested bucket directly inside the
\* path's bucket, the handle's name, the separator and the bucket's own
\* name; never a plain key and never a bucket further down.
C32_ChildrenExact ==
  \A p \in Callers :
    LET r == ret[p]
        path == PathOf(r.call)
        kids == ChildNames(r.pre, path)
    IN  (r.call.op = "GetRootBucketNames" /\ path \in r.pre.bk
           /\ \A q \in Callers \ {p} : pc[q] = "idle" /\ ret[q] = NoRet)
        => /\ r.err = ErrNil
           /\ SeqToSet(r.names) = {ChildName(r.call.name, r.call.sep, k) : k \in kids}
           /\ Len(r.names) = Cardinality(kids)

\* C33: read operations never change the store: every step that changes the
\* committed store is a step of a caller that is executing a write
\* operation, and a caller executing a read operation has no write
\* transaction open.
C33_ReadsLeaveStore ==
  [][/\ store' # store
        => \E p \in Callers : pc'[p] # pc[p] /\ cur[p].op \in WriteOps
     /\ \A p \in Callers : cur[p].op \in ReadOps => tx[p] # "write"]_vars

\* C33 witness: GetAll on a has returned no pair and caller 1 is about to
\* return, after caller 2 committed the insertion of k into a: the
\* transaction that read an older store ended and the store holds k.
C33_Witness ==
  /\ pc[1] = "ret" /\ cur[1].op = "GetAll"
  /\ res[1].err = ErrNil /\ res[1].items = <<>>
  /\ HasKey(store, <<<<"a">>>>, <<"k">>)

\* C34: DeleteBucket on a path that does not name an existing bucket (its
\* root, an intermediate or its terminal segment is missing) returns an error
\* and leaves the store as it was.
C34_DeleteMissingFails ==
  \A p \in Callers :
    LET r == ret[p]
    IN  (r.call.op = "DeleteBucket" /\ PathOf(r.call) \notin r.pre.bk)
        => r.err # ErrNil /\ r.post = r.pre

\* What Delete on a path that names no bucket has to do for C35: return nil
\* and leave the store CreateBucket on that path leaves, which holds every
\* bucket of the path and the pairs that were there.
DeleteCreatedPath(r) ==
  /\ r.err = ErrNil
  /\ r.post = CreateBucketTx(r.pre, r.call.name, r.call.sep).store
  /\ r.post.bk = r.pre.bk \cup Prefixes(PathOf(r.call))
  /\ r.post.kv = r.pre.kv

\* C35 as stated: Delete on a path whose buckets do not exist returns no
\* error and creates every bucket of the path.
C35_AsStated ==
  \A p \in Callers :
    LET r == ret[p]
    IN  (r.call.op = "Delete" /\ PathOf(r.call) \notin r.pre.bk)
        => DeleteCreatedPath(r)

\* No segment of the path is empty or the name of a plain key of the bucket
\* that the segments before it name.
NoSegmentBlocked(s, path) ==
  \A i \in 1..Len(path) :
    path[i] # <<>> /\ ~HasKey(s, SubSeq(path, 1, i - 1), path[i])

\* C35: Delete on a path whose buckets do not exist, none of whose segments
\* is empty or the name of a plain key of its parent, returns no error and
\* creates every bucket of the path: the store change of CreateBucket.
C35_DeleteCreatesPath ==
  \A p \in Callers :
    LET r == ret[p]
    IN  (/\ r.call.op = "Delete"
         /\ PathOf(r.call) \notin r.pre.bk
         /\ NoSegmentBlocked(r.pre, PathOf(r.call)))
        => DeleteCreatedPath(r)

\* C35 witness: Delete through a/b on a store without a has returned nil and
\* the store now holds a and a/b.
C35_Witness ==
  LET r == ret[1]
  IN  /\ r.call.op = "Delete" /\ r.call.name = <<"a", "/", "b">>
      /\ <<<<"a">>>> \notin r.pre.bk
      /\ r.err = ErrNil
      /\ {<<<<"a">>>>, <<<<"a">>, <<"b">>>>} \subseteq r.post.bk

\* C36: Get with a key that names a nested bucket of the terminal bucket
\* fails with "Key not found" and returns no value; and in the store no name
\* is both a plain key and a nested bucket of the same bucket.
C36_GetOnNestedBucket ==
  /\ \A p \in Callers :
       LET r == ret[p]
       IN  (r.call.op = "Get" /\ Append(PathOf(r.call), r.call.key) \in r.pre.bk)
           => /\ r.err = Err("Key not found", r.call.key)
              /\ r.value = <<>>
              /\ r.post = r.pre
  /\ \A t \in store.kv : Append(t[1], t[2]) \notin store.bk

\* C36 witness: Get of b from a has failed while a/b is a bucket, in a store
\* where a also holds a pair.
C36_Witness ==
  LET r == ret[1]
  IN  /\ r.call.op = "Get" /\ r.call.name = <<"a">> /\ r.call.key = <<"b">>
      /\ <<<<"a">>, <<"b">>>> \in r.pre.bk
      /\ r.err.kind = "Key not found"
      /\ PlainKeys(r.pre, <<<<"a">>>>) # {}

\* C39: in the work-queue loop of Bucket.GetAllBucketNames the counter
\* numBucketsToProcess always equals the length of the queue bucketNames, so
\* no pop is made on an empty queue (no walk ends with an index out of
\* range), and a walk that left the loop through its condition left it with
\* an empty queue.
C39_CounterIsQueueLength ==
  \A p \in Callers :
    LET w == walk[p]
    IN  /\ w.n = Len(w.q)
        /\ w.err # ErrPanic
        /\ (w.phase = "done" /\ w.err = ErrNil) => w.q = <<>>

\* C39 witness: a walk is expanding its second name or a later one while
\* names are still queued.
C39_Witness ==
  LET w == walk[1]
  IN  /\ cur[1].op = "GetAllBucketNames"
      /\ w.phase = "expand"
      /\ Len(w.sub) >= 2
      /\ w.n >= 1 /\ Len(w.q) >= 1

\* C38: splitting the name of a handle on its separator gives at least one
\* segment, whatever the name and the separator, so no operation that reads
\* the root segment (Update, View, DeleteBucket) indexes an empty list.
C38_SplitNeverEmpty ==
  \A p \in Callers :
    /\ cur[p].op # "none" => Len(Split(cur[p].name, cur[p].sep)) >= 1
    /\ ret[p].err # ErrPanic

\* C37: in the earlier implementation Bucket.GetAllBucketNames on an
\* existing bucket returns the names of all buckets below it, and
\* DB.GetAllBucketNames the names of all buckets of the store.
C37_OldWalkFindsAll ==
  \A p \in Callers :
    LET r == ret[p]
        path == PathOf(r.call)
    IN  /\ (r.call.op = "OldGetAllBucketNames" /\ path \in r.pre.bk)
           => /\ r.err = ErrNil
              /\ SeqToSet(r.names)
                   = {JoinPath(q, r.call.sep) : q \in ProperDescendants(r.pre, path)}
        /\ r.call.op = "OldDBGetAllBucketNames"
           => /\ r.err = ErrNil
              /\ SeqToSet(r.names)
                   = {JoinPath(q, DefaultSeparator) : q \in r.pre.bk}

=============================================================================
